---- MODULE Spec2Model ----
(***************************************************************************)
(* Model of the scripts of SysAdminAutomation-py.                          *)
(* SpecScan, the filesystem scans:                                         *)
(*   disk_cleanup.py    show_disk_usage_and_large_files                    *)
(*   security_audit.py  list_world_writable_files,                         *)
(*                      list_world_writable_dirs_no_sticky,                *)
(*                      list_suid_sgid_files                               *)
(* SpecRotate:                                                             *)
(*   log_rotate.py      rotate_logs                                        *)
(* SpecTools, the command lines of log_rotate.py and of:                   *)
(*   disk_cleanup.py    clean_package_caches_and_temp                      *)
(*   process_monitor.py, sys_monitor.py, log_inspect.py,                   *)
(*   service_manager.py, user_manager.py, update_system.py,                *)
(*   rsync_magic.py, backup.py, restore.py, zimbra_backup.py               *)
(* SpecAgain, runs that follow one another:                                *)
(*   backup.py, log_rotate.py                                              *)
(* Each script is a sequential program; one step of the model is one       *)
(* iteration of a loop of the script (one directory yielded by os.walk, or *)
(* one entry of the directory handled by the loop body).                   *)
(***************************************************************************)
EXTENDS Integers, Sequences, FiniteSets, TLC

VARIABLES
    prog,           \* which script runs (the name of the .py file)
    argv,           \* sys.argv[1:]; for log_rotate.py, which parses its argument,
                    \* an argument is the sequence of its characters
    stdin,          \* the lines typed at the prompts of input(), in order
    pc,             \* position in the script
    pending,        \* os.walk: directories still to be yielded, in order
    root,           \* os.walk: the directory whose body is running ("" when none)
    todo,           \* the entries of root the loop body has still to handle
    largest_files,  \* disk_cleanup: list of <<size, path>>
    log,            \* the records handed to logging, in order
    visited,        \* history: <<scan, path, result>> of every stat/getsize call, in
                    \* order; result is the size or st_mode read, Raised when it raised
    mode,           \* the filesystem: st_mode of every entry below "/"
    exitcode,       \* -1 while running, else the exit status of the process
    fs,             \* the filesystem below /var/log: path -> file
    fs0,            \* history: fs when the script started
    now,            \* time.time(), in seconds
    days,           \* log_rotate: the argument of rotate_logs
    euid,           \* os.geteuid()
    compressed_count,
    removed_count,
    faults          \* the number of I/O faults the run has met

scanvars == <<largest_files, mode>>
rotvars == <<fs, fs0, now, days, euid, compressed_count, removed_count, faults>>

vars == <<prog, argv, stdin, pc, pending, root, todo, largest_files, log, visited, mode,
          exitcode, fs, fs0, now, days, euid, compressed_count, removed_count,
          faults>>

(***************************************************************************)
(* Bounds of the model.                                                    *)
(***************************************************************************)
\* the size os.path.getsize reads for a file ranges over 0..MaxSize
MaxSize == 1
\* a run of log_rotate.py meets at most MaxFaults I/O faults
MaxFaults == 2

(***************************************************************************)
(* The filesystem below "/".  Entries are named by their full path, i.e.   *)
(* os.path.join(root, name) is folded into the listing.  The order of a    *)
(* listing is the order in which os.walk hands the names to the loop body. *)
(***************************************************************************)
SubDirs(d) ==
    CASE d = "/"       -> <<"/proc", "/home", "/dev", "/sys", "/tmp", "/run">>
      [] d = "/proc"   -> <<"/proc/1">>
      [] d = "/dev"    -> <<"/dev/shm">>
      [] d = "/home"   -> <<"/home/u">>
      [] d = "/var/log" -> <<"/var/log/nginx">>     \* the tree log_rotate.py walks
      [] OTHER         -> <<>>

FilesIn(d) ==
    CASE d = "/"         -> <<"/vmlinuz">>
      [] d = "/proc"     -> <<"/proc/kcore">>
      [] d = "/proc/1"   -> <<"/proc/1/mem">>
      [] d = "/dev"      -> <<"/dev/null">>
      [] d = "/dev/shm"  -> <<"/dev/shm/seg">>
      [] d = "/run"      -> <<"/run/pid">>
      [] d = "/home"     -> <<"/home/f1", "/home/f2", "/home/f3", "/home/f4",
                              "/home/f5", "/home/f6", "/home/f7", "/home/f8">>
      [] d = "/home/u"   -> <<"/home/u/a", "/home/u/b">>
      [] OTHER           -> <<>>

Range(s) == {s[i] : i \in 1..Len(s)}

AllDirs == {"/", "/proc", "/proc/1", "/dev", "/dev/shm", "/sys", "/run",
            "/home", "/home/u", "/tmp"}

AllFiles == UNION {Range(FilesIn(d)) : d \in AllDirs}

\* everything located beneath directory d (d itself not included)
RECURSIVE Beneath(_)
Beneath(d) ==
    Range(FilesIn(d)) \cup Range(SubDirs(d))
        \cup UNION {Beneath(c) : c \in Range(SubDirs(d))}

\* the entries on which a stat / getsize / open may raise
Flaky == {"/home/f3", "/home/u/b", "/home/u"}

\* what os.path.getsize can return for a file: three files of the filesystem have
\* a known size, the size of any other file is any value up to the bound
SizesOf(p) ==
    CASE p = "/vmlinuz"   -> {1}
      [] p = "/home/f8"   -> {0}
      [] p = "/home/u/a"  -> {1}
      [] OTHER            -> 0..MaxSize

\* a mode written as in the source, in octal: Oct(0,4,7,5,5) is 0o4755
Oct(t, a, b, c, d) == (((t * 16 + a) * 8 + b) * 8 + c) * 8 + d

\* stat.S_IFDIR 0o040000, stat.S_IFREG 0o100000, stat.S_IFCHR 0o020000: t is the
\* file type, the four bits above the twelve permission bits
FileType == [dir |-> 4, reg |-> 8, chr |-> 2]
IFDIR == FileType.dir
IFREG == FileType.reg
IFCHR == FileType.chr

\* the modes the filesystem has where Init does not choose them
DefaultMode(p) ==
    CASE p \in {"/proc/1", "/dev/shm", "/sys"}  -> Oct(IFDIR, 0, 7, 7, 7)
      [] p = "/tmp"                             -> Oct(IFDIR, 1, 7, 7, 7)
      [] p \in AllDirs                          -> Oct(IFDIR, 0, 7, 5, 5)
      [] p = "/proc/kcore"                      -> Oct(IFREG, 6, 7, 7, 7)
      [] p = "/proc/1/mem"                      -> Oct(IFREG, 4, 7, 5, 7)
      [] p = "/dev/null"                        -> Oct(IFCHR, 0, 6, 6, 6)
      [] p = "/dev/shm/seg"                     -> Oct(IFREG, 2, 6, 6, 6)
      [] p = "/run/pid"                         -> Oct(IFREG, 0, 6, 6, 6)
      [] p \in {"/home/f2", "/home/f3"}         -> Oct(IFREG, 4, 7, 5, 5)
      [] p = "/home/f4"                         -> Oct(IFREG, 2, 7, 5, 5)
      [] p = "/home/f5"                         -> Oct(IFREG, 0, 6, 6, 6)
      [] p = "/home/f6"                         -> Oct(IFREG, 6, 7, 7, 7)
      [] p = "/home/f7"                         -> Oct(IFREG, 0, 7, 7, 5)
      [] OTHER                                  -> Oct(IFREG, 0, 7, 5, 5)

(***************************************************************************)
(* disk_cleanup.py and security_audit.py: the exclusion set.               *)
(***************************************************************************)
skip_dirs == {"/proc", "/run", "/sys", "/dev"}

\* what is located beneath an excluded directory
Excluded == UNION {Beneath(d) : d \in skip_dirs}

(***************************************************************************)
(* os.walk(top, topdown=True): the next directory is yielded once the body *)
(* of the previous one has finished; its sub-directories are walked, in    *)
(* order, before the rest.  For a directory of the exclusion set the body  *)
(* empties dirs (no recursion below it) and continues (no entry handled).  *)
(***************************************************************************)
\* (the body continues without emptying dirs)
WalkDescendUnpruned(d, skip) == SubDirs(d)

\* dirs after the body has run: `dirs[:] = []` for an excluded root
WalkDescend(d, skip) == IF d \in skip THEN <<>> ELSE SubDirs(d)

\* the entries the body handles: none after `continue`
WalkBody(d, skip, entries) == IF d \in skip THEN <<>> ELSE entries

\* one iteration of `for root, dirs, files in os.walk(...)`; listing[d] is the
\* list (files or dirs) the body iterates over for root d
WalkYield(listing, skip) ==
    /\ todo = <<>>
    /\ pending # <<>>
    /\ LET d == Head(pending) IN
        /\ pending' = WalkDescend(d, skip) \o Tail(pending)
        /\ root' = d
        /\ todo' = WalkBody(d, skip, listing[d])

WalkOver == todo = <<>> /\ pending = <<>>

\* the result recorded for a call that raised
Raised == 0 - 1

Rec(level, text, path, val) ==
    [level |-> level, text |-> text, path |-> path, val |-> val]

(***************************************************************************)
(* disk_cleanup.py: show_disk_usage_and_large_files                        *)
(***************************************************************************)
TopN == 10

Min(a, b) == IF a <= b THEN a ELSE b

\* (a sort that puts an element before the elements of equal key)
InsertDescBeforeTies(s, x) ==
    LET k == Cardinality({i \in 1..Len(s) : s[i][1] > x[1]})
    IN  SubSeq(s, 1, k) \o <<x>> \o SubSeq(s, k + 1, Len(s))

\* list.sort(reverse=True, key=lambda x: x[0]) is a stable sort: an element goes
\* behind every element whose key is greater or equal
InsertDesc(s, x) ==
    LET k == Cardinality({i \in 1..Len(s) : s[i][1] >= x[1]})
    IN  SubSeq(s, 1, k) \o <<x>> \o SubSeq(s, k + 1, Len(s))

RECURSIVE SortDesc(_)
SortDesc(s) ==
    IF s = <<>> THEN <<>>
    ELSE InsertDesc(SortDesc(SubSeq(s, 1, Len(s) - 1)), s[Len(s)])

\* (the slice taken from the other end of the list)
TopFromEnd(s) == SubSeq(s, Len(s) - Min(TopN, Len(s)) + 1, Len(s))

\* largest_files[:10]
Top(s) == SubSeq(s, 1, Min(TopN, Len(s)))

\* f"{size / (1024*1024):.1f}": the size in tenths of a MB, rounded half to even
TenthsMB(size) ==
    LET q == (size * 10) \div (1024 * 1024)
        r == (size * 10) % (1024 * 1024)
    IN  IF r > 512 * 1024 \/ (r = 512 * 1024 /\ q % 2 = 1) THEN q + 1 ELSE q

\* lines 66-68: one record "<size_mb> MB - <path>" per listed file
RECURSIVE ReportLines(_)
ReportLines(s) ==
    IF s = <<>> THEN <<>>
    ELSE <<Rec("INFO", "MB - path", s[1][2], TenthsMB(s[1][1]))>>
            \o ReportLines(Tail(s))

\* lines 37-47: the df overview; a failing df is logged and the scan goes on
DiskUsage ==
    /\ prog = "disk_cleanup" /\ pc = "df"
    /\ \/ log' = log \o <<Rec("INFO", "==== Disk Usage Overview ====", "", 0),
                          Rec("INFO", "df output", "", 0),
                          Rec("INFO", "==== Top 10 Largest Files ====", "", 0)>>
       \/ log' = log \o <<Rec("INFO", "==== Disk Usage Overview ====", "", 0),
                          Rec("ERROR", "Unable to retrieve disk usage (df failed)", "", 0),
                          Rec("INFO", "==== Top 10 Largest Files ====", "", 0)>>
    /\ pc' = "walk"
    /\ pending' = <<"/">>
    /\ UNCHANGED <<prog, argv, stdin, root, todo, largest_files, visited, mode, exitcode, rotvars>>

\* lines 52-56
DiskWalk ==
    /\ prog = "disk_cleanup" /\ pc = "walk"
    /\ WalkYield([d \in AllDirs |-> FilesIn(d)], skip_dirs)
    /\ UNCHANGED <<prog, argv, stdin, pc, largest_files, log, visited, mode, exitcode, rotvars>>

\* lines 57-63, one iteration
DiskFile ==
    /\ prog = "disk_cleanup" /\ pc = "walk"
    /\ todo # <<>>
    /\ LET file_path == Head(todo) IN
        /\ todo' = Tail(todo)
        /\ \/ \E size \in SizesOf(file_path) :
                /\ largest_files' = Append(largest_files, <<size, file_path>>)
                /\ visited' = Append(visited, <<"walk", file_path, size>>)
           \/ /\ file_path \in Flaky        \* os.path.getsize raised: continue
              /\ largest_files' = largest_files
              /\ visited' = Append(visited, <<"walk", file_path, Raised>>)
    /\ UNCHANGED <<prog, argv, stdin, pc, pending, root, log, mode, exitcode, rotvars>>

\* lines 64-69 and 120-121
DiskReport ==
    /\ prog = "disk_cleanup" /\ pc = "walk"
    /\ WalkOver
    /\ largest_files' = SortDesc(largest_files)
    /\ log' = log \o ReportLines(Top(SortDesc(largest_files)))
                  \o <<Rec("INFO", "(To actually free space, run: --clean)", "", 0)>>
    /\ pc' = "done"
    /\ exitcode' = 0
    /\ UNCHANGED <<prog, argv, stdin, pending, root, todo, visited, mode, rotvars>>

\* the variables of log_rotate.py while another script runs
NoLogTree ==
    /\ fs = [p \in {} |-> 0]
    /\ fs0 = fs
    /\ now = 0
    /\ days = 0
    /\ euid = 0
    /\ compressed_count = 0
    /\ removed_count = 0
    /\ faults = 0

InitDisk ==
    /\ NoLogTree
    /\ prog = "disk_cleanup"
    /\ argv = <<>>
    /\ stdin = <<>>
    /\ pc = "df"
    /\ pending = <<>>
    /\ root = ""
    /\ todo = <<>>
    /\ largest_files = <<>>
    /\ log = <<>>
    /\ visited = <<>>
    /\ mode = [p \in AllDirs \cup AllFiles |-> DefaultMode(p)]
    /\ exitcode = -1

(***************************************************************************)
(* security_audit.py                                                       *)
(***************************************************************************)
\* m & mask != 0 for a mask of one bit
Bit(m, mask) == (m \div mask) % 2 = 1

\* stat.S_ISDIR(m): S_IFMT(m) == S_IFDIR
S_ISDIR(m) == (m \div Oct(1, 0, 0, 0, 0)) % 16 = IFDIR

\* (the group-write bit 0o020 tested for the other-write bit)
GroupWritable(m) == Bit(m, Oct(0, 0, 0, 2, 0))

\* line 52: st.st_mode & 0o002
WorldWritable(m) == Bit(m, Oct(0, 0, 0, 0, 2))

\* (the sticky bit not looked at)
WorldWritableDir(m) == S_ISDIR(m) /\ Bit(m, Oct(0, 0, 0, 0, 2))

\* line 81: S_ISDIR and (st_mode & 0o002) and not (st_mode & 0o1000)
WorldWritableNoSticky(m) ==
    S_ISDIR(m) /\ Bit(m, Oct(0, 0, 0, 0, 2)) /\ ~Bit(m, Oct(0, 1, 0, 0, 0))

\* (the SGID bit not looked at)
SuidOnly(m) == Bit(m, Oct(0, 4, 0, 0, 0))

\* line 108: st_mode & 0o4000 or st_mode & 0o2000
SuidSgid(m) == Bit(m, Oct(0, 4, 0, 0, 0)) \/ Bit(m, Oct(0, 2, 0, 0, 0))

HdrFiles == "==== World-Writable Files (potentially unsafe) ===="
HdrDirs  == "==== World-Writable Directories (no sticky bit) ===="
HdrSuid  == "==== SUID/SGID Files ===="
HdrPorts == "==== Listening Network Ports ===="

\* the condition under which each scan appends the entry to its result list
Matches(sec, m) ==
    CASE sec = "files" -> WorldWritable(m)
      [] sec = "dirs"  -> WorldWritableNoSticky(m)
      [] sec = "suid"  -> SuidSgid(m)

\* the loop body of the three scans, one entry: stat it, skip it when stat
\* raises, log "<perm_str> <owner> <group> <path>" when the predicate holds
\* (perm_str is stat.filemode(st_mode): the record carries st_mode)
AuditEntry(sec) ==
    /\ prog = "security_audit" /\ pc = sec
    /\ todo # <<>>
    /\ LET path == Head(todo) IN
        /\ todo' = Tail(todo)
        /\ \/ /\ Matches(sec, mode[path])
              /\ log' = Append(log, Rec("INFO", "perm owner group path", path, mode[path]))
              /\ visited' = Append(visited, <<sec, path, mode[path]>>)
           \/ /\ ~Matches(sec, mode[path])
              /\ log' = log
              /\ visited' = Append(visited, <<sec, path, mode[path]>>)
           \/ /\ path \in Flaky          \* os.stat raised: continue
              /\ log' = log
              /\ visited' = Append(visited, <<sec, path, Raised>>)
    /\ UNCHANGED <<prog, argv, stdin, pc, pending, root, largest_files, mode, exitcode, rotvars>>

AuditWalk(sec) ==
    /\ prog = "security_audit" /\ pc = sec
    /\ WalkYield([d \in AllDirs |-> IF sec = "dirs" THEN SubDirs(d) ELSE FilesIn(d)],
                 skip_dirs)
    /\ UNCHANGED <<prog, argv, stdin, pc, largest_files, log, visited, mode, exitcode, rotvars>>

\* the walk of one scan is over: the next function logs its header and walks "/"
AuditNext(sec, next, header) ==
    /\ prog = "security_audit" /\ pc = sec
    /\ WalkOver
    /\ pc' = next
    /\ log' = Append(log, Rec("INFO", header, "", 0))
    /\ pending' = <<"/">>
    /\ root' = ""
    /\ UNCHANGED <<prog, argv, stdin, todo, largest_files, visited, mode, exitcode, rotvars>>

\* lines 149 and 37
AuditBegin ==
    /\ prog = "security_audit" /\ pc = "start"
    /\ pc' = "files"
    /\ log' = Append(log, Rec("INFO", HdrFiles, "", 0))
    /\ pending' = <<"/">>
    /\ UNCHANGED <<prog, argv, stdin, root, todo, largest_files, visited, mode, exitcode, rotvars>>

\* list_world_writable_files, lines 39-64
WWFilesWalk == AuditWalk("files")
WWFilesFile == AuditEntry("files")
WWFilesEnd  == AuditNext("files", "dirs", HdrDirs)

\* list_world_writable_dirs_no_sticky, lines 70-92
WWDirsWalk == AuditWalk("dirs")
WWDirsDir  == AuditEntry("dirs")
WWDirsEnd  == AuditNext("dirs", "suid", HdrSuid)

\* list_suid_sgid_files, lines 97-119
SuidWalk == AuditWalk("suid")
SuidFile == AuditEntry("suid")

\* list_open_ports, lines 121-143, and the end of the script
SuidEndPorts ==
    /\ prog = "security_audit" /\ pc = "suid"
    /\ WalkOver
    /\ \E out \in {"ss or netstat output",
                   "(No listening ports or the command produced no output)",
                   "No command available to list network ports."} :
          log' = log \o <<Rec("INFO", HdrPorts, "", 0), Rec("INFO", out, "", 0)>>
    /\ pc' = "done"
    /\ exitcode' = 0
    /\ UNCHANGED <<prog, argv, stdin, pending, root, todo, largest_files, visited, mode, rotvars>>

\* the modes Init chooses
FileModes == {Oct(IFREG, 0, 7, 5, 5), Oct(IFREG, 4, 7, 5, 5), Oct(IFREG, 2, 7, 5, 5),
              Oct(IFREG, 0, 6, 6, 6), Oct(IFREG, 6, 7, 7, 7),
              Oct(IFREG, 0, 6, 6, 4)}
DirModes  == {Oct(IFDIR, 0, 7, 5, 5), Oct(IFDIR, 0, 7, 7, 7), Oct(IFDIR, 1, 7, 7, 7)}
ProbeFiles == {"/home/u/b"}
ProbeDirs  == {"/", "/home/u"}

InitAudit ==
    /\ NoLogTree
    /\ prog = "security_audit"
    /\ argv = <<>>
    /\ stdin = <<>>
    /\ pc = "start"
    /\ pending = <<>>
    /\ root = ""
    /\ todo = <<>>
    /\ largest_files = <<>>
    /\ log = <<>>
    /\ visited = <<>>
    /\ \E fm \in [ProbeFiles -> FileModes], dm \in [ProbeDirs -> DirModes] :
          mode = [p \in AllDirs \cup AllFiles |->
                    IF p \in ProbeFiles THEN fm[p]
                    ELSE IF p \in ProbeDirs THEN dm[p] ELSE DefaultMode(p)]
    /\ exitcode = -1

InitScan == InitDisk \/ InitAudit

NextScan ==
    \/ DiskUsage \/ DiskWalk \/ DiskFile \/ DiskReport
    \/ AuditBegin
    \/ WWFilesWalk \/ WWFilesFile \/ WWFilesEnd
    \/ WWDirsWalk \/ WWDirsDir \/ WWDirsEnd
    \/ SuidWalk \/ SuidFile \/ SuidEndPorts

SpecScan == InitScan /\ [][NextScan]_vars

(***************************************************************************)
(* Properties of the scans rooted at "/"                                   *)
(***************************************************************************)
Headers == {HdrFiles, HdrDirs, HdrSuid, HdrPorts}

\* the records logged under header h, up to the next header
SectionOf(h) ==
    LET at == {i \in 1..Len(log) : log[i].text = h} IN
    IF at = {} THEN <<>>
    ELSE LET i == CHOOSE k \in at : TRUE
             later == {k \in (i + 1)..Len(log) : log[k].text \in Headers}
             j == IF later = {} THEN Len(log) + 1
                  ELSE CHOOSE k \in later : \A l \in later : k <= l
         IN  SubSeq(log, i + 1, j - 1)

\* how many records of the section sec name path p
TimesReported(sec, p) ==
    Cardinality({i \in 1..Len(sec) : sec[i].path = p})

\* the stat of p raised in scan sec
StatRaised(sec, p) ==
    \E i \in 1..Len(visited) : visited[i] = <<sec, p, Raised>>

\* the lines of the largest-files report, in order
IsReportLine(e) == e.text = "MB - path"
ReportOf == SelectSeq(log, IsReportLine)

\* the files whose size could be read, as <<position in the walk, size, path>>
Candidates ==
    {<<i, visited[i][3], visited[i][2]>> : i \in
        {k \in 1..Len(visited) : visited[k][1] = "walk" /\ visited[k][3] # Raised}}

CandOf(cand, p) == CHOOSE c \in cand : c[3] = p

\* C3: in the largest-files scan and the three security_audit scans nothing
\* located beneath /proc, /sys, /run or /dev is ever walked as a root, handed to
\* the loop body, stat-ed, collected as a candidate or named in a log record.
C3_ExcludedNeverVisited ==
    /\ root \notin Excluded
    /\ Range(todo) \cap Excluded = {}
    /\ \A i \in 1..Len(visited) : visited[i][2] \notin Excluded
    /\ \A i \in 1..Len(largest_files) : largest_files[i][2] \notin Excluded
    /\ \A i \in 1..Len(log) : log[i].path \notin Excluded

\* every scan has finished although the filesystem holds, beneath excluded
\* directories, files that match every predicate
C3_Witness ==
    /\ pc = "done"
    /\ prog = "security_audit"
    /\ WorldWritable(mode["/proc/kcore"]) /\ SuidSgid(mode["/proc/kcore"])
    /\ WorldWritableNoSticky(mode["/proc/1"])
    /\ \E i \in 1..Len(visited) : visited[i][2] = "/proc"

\* C5: the largest-files report lists min(10, number of candidates) files, all of
\* them candidates, each once, by size descending, and no candidate left out is
\* larger than a listed one (so fewer than 10 candidates are all listed).
C5_TopNReport ==
    (prog = "disk_cleanup" /\ pc = "done") =>
        LET rep == ReportOf
            cand == Candidates
            listed == {rep[i].path : i \in 1..Len(rep)}
        IN  /\ Len(rep) = Min(TopN, Cardinality(cand))
            /\ Cardinality(listed) = Len(rep)
            /\ \A p \in listed : \E c \in cand : c[3] = p
            /\ \A i \in 1..(Len(rep) - 1) :
                  CandOf(cand, rep[i].path)[2] >= CandOf(cand, rep[i + 1].path)[2]
            /\ \A c \in cand : c[3] \notin listed =>
                  \A p \in listed : c[2] <= CandOf(cand, p)[2]
            /\ Cardinality(cand) < TopN =>
                  listed = {c[3] : c \in cand}

\* a report cut to 10 lines that leaves a candidate out
C5_Witness ==
    /\ prog = "disk_cleanup" /\ pc = "done"
    /\ Cardinality(Candidates) > TopN
    /\ Len(ReportOf) = TopN
    /\ \E c, e \in Candidates : c[2] # e[2]

\* a report of fewer than 10 candidates
C5_WitnessFew ==
    /\ prog = "disk_cleanup" /\ pc = "done"
    /\ Cardinality(Candidates) < TopN
    /\ Len(ReportOf) = Cardinality(Candidates)

\* C6: listed files of equal size appear in the order of the walk, and a candidate
\* left out that ties with a listed file was met after it.
C6_TieBreakEncounterOrder ==
    (prog = "disk_cleanup" /\ pc = "done") =>
        LET rep == ReportOf
            cand == Candidates
            listed == {rep[i].path : i \in 1..Len(rep)}
        IN  /\ \A i, j \in 1..Len(rep) :
                  (i < j /\ CandOf(cand, rep[i].path)[2] = CandOf(cand, rep[j].path)[2])
                      => CandOf(cand, rep[i].path)[1] < CandOf(cand, rep[j].path)[1]
            /\ \A c \in cand : c[3] \notin listed =>
                  \A p \in listed :
                      c[2] = CandOf(cand, p)[2] => CandOf(cand, p)[1] < c[1]

\* a tie that straddles the cut-off: the 10th line and a file left out have the
\* same size
C6_Witness ==
    /\ prog = "disk_cleanup" /\ pc = "done"
    /\ Len(ReportOf) = TopN
    /\ \E c \in Candidates :
          /\ c[3] \notin {ReportOf[i].path : i \in 1..TopN}
          /\ c[2] = CandOf(Candidates, ReportOf[TopN].path)[2]
    /\ CandOf(Candidates, ReportOf[1].path)[2] = CandOf(Candidates, ReportOf[2].path)[2]

NonExcludedFiles == AllFiles \ Excluded
NonExcludedDirs  == AllDirs \ (Excluded \cup skip_dirs)

\* C7 as stated: once the directory scan is over, a non-excluded directory is
\* reported iff it is world-writable without the sticky bit.
C7_Original ==
    LET sec == SectionOf(HdrDirs) IN
    (prog = "security_audit" /\ pc \in {"suid", "done"}) =>
        \A d \in NonExcludedDirs :
            TimesReported(sec, d) >= 1
                <=> (S_ISDIR(mode[d]) /\ Bit(mode[d], 2) /\ ~Bit(mode[d], 512))

\* C7 amended: a non-excluded directory other than the root of the scan, whose
\* stat did not raise, is reported iff it is a directory, world-writable and
\* without the sticky bit; mode 0o1777 is not reported, mode 0o0777 is.  The root
\* "/" itself and a directory whose stat raised are not reported.
C7_DirsStattedIff ==
    LET sec == SectionOf(HdrDirs) IN
    (prog = "security_audit" /\ pc \in {"suid", "done"}) =>
        /\ \A d \in NonExcludedDirs \ {"/"} :
              IF StatRaised("dirs", d)
              THEN TimesReported(sec, d) = 0
              ELSE /\ TimesReported(sec, d) >= 1
                        <=> (S_ISDIR(mode[d]) /\ Bit(mode[d], 2)
                                /\ ~Bit(mode[d], 512))
                   /\ mode[d] = Oct(IFDIR, 1, 7, 7, 7) => TimesReported(sec, d) = 0
                   /\ mode[d] = Oct(IFDIR, 0, 7, 7, 7) => TimesReported(sec, d) >= 1
        /\ TimesReported(sec, "/") = 0

\* the directory scan is over and has reported a 0o0777 directory and passed
\* over a 0o1777 one
C7_Witness ==
    LET sec == SectionOf(HdrDirs) IN
    /\ prog = "security_audit" /\ pc = "done"
    /\ \E d, e \in NonExcludedDirs \ {"/"} :
          /\ mode[d] = Oct(IFDIR, 0, 7, 7, 7) /\ TimesReported(sec, d) = 1
          /\ mode[e] = Oct(IFDIR, 1, 7, 7, 7) /\ TimesReported(sec, e) = 0
          /\ ~StatRaised("dirs", e)

\* C8: once the SUID/SGID scan is over, a non-excluded file whose stat did not
\* raise is reported iff its mode has 0o4000 or 0o2000; 0o4755 and 0o2755 are
\* reported, 0o0755 is not.
C8_SuidSgidIff ==
    LET sec == SectionOf(HdrSuid) IN
    (prog = "security_audit" /\ pc = "done") =>
        \A f \in NonExcludedFiles : ~StatRaised("suid", f) =>
            /\ TimesReported(sec, f) >= 1
                  <=> (Bit(mode[f], 2048) \/ Bit(mode[f], 1024))
            /\ mode[f] \in {Oct(IFREG, 4, 7, 5, 5), Oct(IFREG, 2, 7, 5, 5)}
                  => TimesReported(sec, f) >= 1
            /\ mode[f] = Oct(IFREG, 0, 7, 5, 5) => TimesReported(sec, f) = 0

C8_Witness ==
    LET sec == SectionOf(HdrSuid) IN
    /\ prog = "security_audit" /\ pc = "done"
    /\ \E f, g, h \in NonExcludedFiles :
          /\ mode[f] = Oct(IFREG, 4, 7, 5, 5) /\ TimesReported(sec, f) = 1
          /\ mode[g] = Oct(IFREG, 2, 7, 5, 5) /\ TimesReported(sec, g) = 1
          /\ mode[h] = Oct(IFREG, 0, 7, 5, 5) /\ TimesReported(sec, h) = 0
          /\ ~StatRaised("suid", h)

\* C9: once the world-writable-files scan is over, every non-excluded file whose
\* stat did not raise and whose mode has 0o002 is reported exactly once, and no
\* file whose mode lacks 0o002 is reported.
C9_WorldWritableFilesAll ==
    LET sec == SectionOf(HdrFiles) IN
    (prog = "security_audit" /\ pc \in {"dirs", "suid", "done"}) =>
        /\ \A f \in NonExcludedFiles :
              (~StatRaised("files", f) /\ Bit(mode[f], 2))
                  => TimesReported(sec, f) = 1
        /\ \A f \in AllFiles :
              ~Bit(mode[f], 2) => TimesReported(sec, f) = 0

\* the scan has reported three world-writable files and passed over another file
C9_Witness ==
    /\ prog = "security_audit" /\ pc = "dirs"
    /\ Len(SectionOf(HdrFiles)) >= 3
    /\ \E f \in NonExcludedFiles :
          ~Bit(mode[f], 2) /\ ~StatRaised("files", f)

(***************************************************************************)
(* log_rotate.py                                                           *)
(***************************************************************************)
\* 24*3600 seconds
Day == 24 * 3600

\* the names that can exist below /var/log, by directory, in listing order
LogNames(d) ==
    CASE d = "/var/log"        -> <<"/var/log/app.log", "/var/log/app.log.gz",
                                    "/var/log/old.gz", "/var/log/syslog.1">>
      [] d = "/var/log/nginx"  -> <<"/var/log/nginx/access.log",
                                    "/var/log/nginx/access.log.gz">>
      [] OTHER                 -> <<>>

LogDirs == {"/var/log", "/var/log/nginx"}

LogPaths == Range(LogNames("/var/log")) \cup Range(LogNames("/var/log/nginx"))

\* fname.endswith(".log"), fname.endswith(".gz")
EndsWithLog(p) == p \in {"/var/log/app.log", "/var/log/nginx/access.log"}
EndsWithGz(p) == p \in {"/var/log/app.log.gz", "/var/log/old.gz",
                        "/var/log/nginx/access.log.gz"}

\* fpath + ".gz"
GzPath(p) ==
    CASE p = "/var/log/app.log"           -> "/var/log/app.log.gz"
      [] p = "/var/log/nginx/access.log"  -> "/var/log/nginx/access.log.gz"

\* a file: kind is "text" (a log as written), "gz" (a complete gzip stream) or
\* "partial" (a gzip stream cut short); of names the text a gzip stream holds
File(mtime, kind, of) == [present |-> TRUE, mtime |-> mtime, kind |-> kind, of |-> of]
Absent == [present |-> FALSE, mtime |-> 0, kind |-> "none", of |-> ""]
\* a symbolic link whose target does not exist: os.walk lists it among the files,
\* os.stat on it raises FileNotFoundError
Dangling == [present |-> TRUE, mtime |-> 0, kind |-> "dangling", of |-> ""]

\* the files of a directory as os.walk lists them
IsPresent(p) == fs[p].present
LogListing(d) == SelectSeq(LogNames(d), IsPresent)

\* line 36 and line 66
cutoff == now - days * Day
cutoff90 == now - 90 * Day

\* the results recorded for a call that ended in an exception no handler of the
\* script catches, and for a call that succeeded without a value
Uncaught == 0 - 2
Done == Uncaught + 2

Fault == faults < MaxFaults /\ faults' = faults + 1
NoFault == faults' = faults

Warn(text, path) == Rec("WARNING", text, path, 0)

\* str.strip() of an argument: leading and trailing blanks dropped
RECURSIVE LStrip(_)
LStrip(a) == IF a # <<>> /\ Head(a) = " " THEN LStrip(Tail(a)) ELSE a
RECURSIVE RStrip(_)
RStrip(a) == IF a # <<>> /\ a[Len(a)] = " " THEN RStrip(SubSeq(a, 1, Len(a) - 1)) ELSE a
Strip(a) == RStrip(LStrip(a))

Digits == <<"0", "1", "2", "3", "4", "5", "6", "7", "8", "9">>
IsDigit(c) == \E i \in 1..Len(Digits) : Digits[i] = c
DigitVal(c) == (CHOOSE i \in 1..Len(Digits) : Digits[i] = c) - 1

\* the digits of an integer literal, sign removed
Unsigned(a) == IF a # <<>> /\ Head(a) \in {"+", "-"} THEN Tail(a) ELSE a

\* int(a) does not raise ValueError: blanks around, an optional sign, digits
IsInt(a) ==
    LET d == Unsigned(Strip(a)) IN d # <<>> /\ \A i \in 1..Len(d) : IsDigit(d[i])

RECURSIVE Decimal(_)
Decimal(d) == IF d = <<>> THEN 0
              ELSE 10 * Decimal(SubSeq(d, 1, Len(d) - 1)) + DigitVal(d[Len(d)])

\* int(a), for an a with IsInt(a)
IntOf(a) ==
    LET t == Strip(a) IN
    IF Head(t) = "-" THEN 0 - Decimal(Unsigned(t)) ELSE Decimal(Unsigned(t))

\* lines 86-96: days is 7 unless sys.argv[1] is an integer >= 0
ParseDays(args) ==
    IF Len(args) >= 1 /\ IsInt(args[1]) /\ IntOf(args[1]) >= 0
    THEN IntOf(args[1]) ELSE 7

\* lines 85-97
RotateMain ==
    /\ prog = "log_rotate" /\ pc = "main"
    /\ days' = ParseDays(argv)
    /\ pc' = "start"
    /\ UNCHANGED <<prog, argv, stdin, pending, root, todo, log, visited, exitcode, scanvars,
                   fs, fs0, now, euid, compressed_count, removed_count, faults>>

\* (the check for root left out)
NotRootNever(e) == FALSE

\* log_rotate.py line 30, disk_cleanup.py line 75: os.geteuid() != 0
NotRoot(e) == e # 0

\* lines 27-37
RotateStart ==
    /\ prog = "log_rotate" /\ pc = "start"
    /\ IF NotRoot(euid)
       THEN /\ log' = Append(log, Rec("ERROR", "Please run as root to rotate system logs.", "", 0))
            /\ pc' = "done"
            /\ exitcode' = 1
            /\ pending' = pending
       ELSE /\ log' = Append(log, Rec("INFO", "Rotating logs older than days...", "", days))
            /\ pc' = "pass1"
            /\ exitcode' = exitcode
            /\ pending' = <<"/var/log">>
    /\ UNCHANGED <<prog, argv, stdin, root, todo, visited, scanvars, rotvars>>

\* line 40
RotateWalk ==
    /\ prog = "log_rotate" /\ pc = "pass1"
    /\ WalkYield([d \in LogDirs |-> LogListing(d)], {})
    /\ UNCHANGED <<prog, argv, stdin, pc, log, visited, exitcode, scanvars, rotvars>>

\* lines 41-43: a name that does not end in .log
RotateOther ==
    /\ prog = "log_rotate" /\ pc = "pass1"
    /\ todo # <<>>
    /\ ~EndsWithLog(Head(todo))
    /\ todo' = Tail(todo)
    /\ UNCHANGED <<prog, argv, stdin, pc, pending, root, log, visited, exitcode, scanvars, rotvars>>

\* lines 51-56: open(fpath, "rb"), gzip.open(gz_path, "wb"), copyfileobj, close
\* what gz_path holds once the copy is complete
Compressed(f) == File(now, "gz", fs[f].of)
\* what gz_path holds when the copy or the close raised after gzip.open created
\* or truncated it
CutShort(f) == File(now, "partial", fs[f].of)

\* lines 46-48 and 73-75: only FileNotFoundError is caught; any other exception
\* of os.stat ends the process with a traceback and exit status 1
StatError(op, fpath) ==
    /\ visited' = Append(visited, <<op, fpath, Uncaught>>)
    /\ pc' = "crashed"
    /\ exitcode' = 1
    /\ todo' = todo

\* (the except clause without its `continue`)
CompressFailedFallsThrough(fpath) ==
    /\ log' = Append(log, Warn("Failed to compress", fpath))
    /\ todo' = todo
    /\ pc' = "remove"

\* lines 54-56: the warning, then `continue` with the next file
CompressFailed(fpath) ==
    /\ log' = Append(log, Warn("Failed to compress", fpath))
    /\ todo' = Tail(todo)
    /\ pc' = pc

\* (the except clause without its warning)
RemoveFailedSilently(fpath) == log' = log

\* lines 61-62
RemoveFailed(fpath) ==
    log' = Append(log, Warn("Failed to remove original log", fpath))

\* lines 44-56: stat a .log file and compress it when it is old
RotateCompress ==
    /\ prog = "log_rotate" /\ pc = "pass1"
    /\ todo # <<>>
    /\ EndsWithLog(Head(todo))
    /\ LET fpath == Head(todo)
           gz_path == GzPath(fpath)
       IN
        \/ \* os.stat raised FileNotFoundError: continue
           /\ fs[fpath] = Dangling
           /\ NoFault
           /\ visited' = Append(visited, <<"stat", fpath, Raised>>)
           /\ todo' = Tail(todo)
           /\ UNCHANGED <<fs, pc, log, exitcode>>
        \/ \* os.stat raised another OSError: no handler, the process ends
           /\ Fault
           /\ StatError("stat", fpath)
           /\ UNCHANGED <<fs, log>>
        \/ \* the file is not old enough
           /\ fs[fpath] # Dangling
           /\ ~(fs[fpath].mtime < cutoff)
           /\ NoFault
           /\ visited' = Append(visited, <<"stat", fpath, fs[fpath].mtime>>)
           /\ todo' = Tail(todo)
           /\ UNCHANGED <<fs, pc, log, exitcode>>
        \/ \* open or gzip.open raised: gz_path is as it was
           /\ fs[fpath] # Dangling
           /\ fs[fpath].mtime < cutoff
           /\ Fault
           /\ visited' = visited \o <<<<"stat", fpath, fs[fpath].mtime>>,
                                       <<"compress", fpath, Raised>>>>
           /\ CompressFailed(fpath)
           /\ UNCHANGED <<fs, exitcode>>
        \/ \* the copy or the close raised: gz_path is cut short
           /\ fs[fpath] # Dangling
           /\ fs[fpath].mtime < cutoff
           /\ Fault
           /\ fs' = [fs EXCEPT ![gz_path] = CutShort(fpath)]
           /\ visited' = visited \o <<<<"stat", fpath, fs[fpath].mtime>>,
                                       <<"compress", fpath, Raised>>>>
           /\ CompressFailed(fpath)
           /\ UNCHANGED <<exitcode>>
        \/ \* the copy is complete: go on to remove the original
           /\ fs[fpath] # Dangling
           /\ fs[fpath].mtime < cutoff
           /\ NoFault
           /\ fs' = [fs EXCEPT ![gz_path] = Compressed(fpath)]
           /\ visited' = visited \o <<<<"stat", fpath, fs[fpath].mtime>>,
                                       <<"compress", fpath, Done>>>>
           /\ pc' = "remove"
           /\ UNCHANGED <<todo, log, exitcode>>
    /\ UNCHANGED <<prog, argv, stdin, pending, root, scanvars, fs0, now, days, euid,
                   compressed_count, removed_count>>

\* lines 57-62: remove the original .log file
RotateRemove ==
    /\ prog = "log_rotate" /\ pc = "remove"
    /\ LET fpath == Head(todo) IN
        \/ /\ NoFault
           /\ fs' = [fs EXCEPT ![fpath] = Absent]
           /\ compressed_count' = compressed_count + 1
           /\ visited' = Append(visited, <<"remove", fpath, Done>>)
           /\ log' = log
        \/ /\ Fault
           /\ visited' = Append(visited, <<"remove", fpath, Raised>>)
           /\ RemoveFailed(fpath)
           /\ UNCHANGED <<fs, compressed_count>>
    /\ todo' = Tail(todo)
    /\ pc' = "pass1"
    /\ UNCHANGED <<prog, argv, stdin, pending, root, exitcode, scanvars, fs0, now, days, euid,
                   removed_count>>

\* lines 63-68
RotateSecondPass ==
    /\ prog = "log_rotate" /\ pc = "pass1"
    /\ WalkOver
    /\ log' = IF compressed_count # 0
              THEN Append(log, Rec("INFO", "Compressed logs older than days.", "", days))
              ELSE log
    /\ pending' = <<"/var/log">>
    /\ pc' = "pass2"
    /\ UNCHANGED <<prog, argv, stdin, root, todo, visited, exitcode, scanvars, rotvars>>

\* line 68
ExpireWalk ==
    /\ prog = "log_rotate" /\ pc = "pass2"
    /\ WalkYield([d \in LogDirs |-> LogListing(d)], {})
    /\ UNCHANGED <<prog, argv, stdin, pc, log, visited, exitcode, scanvars, rotvars>>

\* lines 69-70: a name that does not end in .gz
ExpireOther ==
    /\ prog = "log_rotate" /\ pc = "pass2"
    /\ todo # <<>>
    /\ ~EndsWithGz(Head(todo))
    /\ todo' = Tail(todo)
    /\ UNCHANGED <<prog, argv, stdin, pc, pending, root, log, visited, exitcode, scanvars, rotvars>>

\* lines 70-81: stat a .gz file and remove it when it is older than 90 days
ExpireArchive ==
    /\ prog = "log_rotate" /\ pc = "pass2"
    /\ todo # <<>>
    /\ EndsWithGz(Head(todo))
    /\ LET fpath == Head(todo) IN
        \/ \* os.stat raised FileNotFoundError: continue
           /\ fs[fpath] = Dangling
           /\ NoFault
           /\ visited' = Append(visited, <<"stat90", fpath, Raised>>)
           /\ todo' = Tail(todo)
           /\ UNCHANGED <<fs, pc, log, exitcode, removed_count>>
        \/ \* os.stat raised another OSError: no handler, the process ends
           /\ Fault
           /\ StatError("stat90", fpath)
           /\ UNCHANGED <<fs, log, removed_count>>
        \/ /\ fs[fpath] # Dangling
           /\ ~(fs[fpath].mtime < cutoff90)
           /\ NoFault
           /\ visited' = Append(visited, <<"stat90", fpath, fs[fpath].mtime>>)
           /\ todo' = Tail(todo)
           /\ UNCHANGED <<fs, pc, log, exitcode, removed_count>>
        \/ /\ fs[fpath] # Dangling
           /\ fs[fpath].mtime < cutoff90
           /\ NoFault
           /\ fs' = [fs EXCEPT ![fpath] = Absent]
           /\ removed_count' = removed_count + 1
           /\ visited' = visited \o <<<<"stat90", fpath, fs[fpath].mtime>>,
                                       <<"expire", fpath, Done>>>>
           /\ todo' = Tail(todo)
           /\ UNCHANGED <<pc, log, exitcode>>
        \/ /\ fs[fpath] # Dangling
           /\ fs[fpath].mtime < cutoff90
           /\ Fault
           /\ visited' = visited \o <<<<"stat90", fpath, fs[fpath].mtime>>,
                                       <<"expire", fpath, Raised>>>>
           /\ log' = Append(log, Warn("Failed to remove old archive", fpath))
           /\ todo' = Tail(todo)
           /\ UNCHANGED <<fs, pc, exitcode, removed_count>>
    /\ UNCHANGED <<prog, argv, stdin, pending, root, scanvars, fs0, now, days, euid,
                   compressed_count>>

\* lines 82-83 and the end of the script
RotateFinish ==
    /\ prog = "log_rotate" /\ pc = "pass2"
    /\ WalkOver
    /\ log' = IF removed_count # 0
              THEN Append(log, Rec("INFO", "Removed log archives older than 90 days.", "", 0))
              ELSE log
    /\ pc' = "done"
    /\ exitcode' = 0
    /\ UNCHANGED <<prog, argv, stdin, pending, root, todo, visited, scanvars, rotvars>>

\* the ages, in days, of the files the script finds
LogAges == {1, 7, 10, 100}
GzAges == {89, 90, 91}
\* the command lines log_rotate.py is run with
RotateArgs == {<<>>, <<<<"1">>>>, <<<<"0">>>>, <<<<"-", "5">>>>, <<<<"a", "b", "c">>>>,
               <<<<" ", "+", "7">>, <<"x">>>>}
StartTime == 400 * Day

\* p at the start: absent, or a file of one of the ages
Aged(ages, kind, of) ==
    {Absent} \cup {File(StartTime - a * Day, kind, of) : a \in ages}

InitRotate ==
    /\ prog = "log_rotate"
    /\ argv \in RotateArgs
    /\ stdin = <<>>
    /\ pc = "main"
    /\ pending = <<>>
    /\ root = ""
    /\ todo = <<>>
    /\ largest_files = <<>>
    /\ log = <<>>
    /\ visited = <<>>
    /\ mode = [p \in {} |-> 0]
    /\ exitcode = -1
    /\ now = StartTime
    /\ days = 7
    /\ euid \in {0, 1000}
    /\ compressed_count = 0
    /\ removed_count = 0
    /\ faults = 0
    /\ \E a \in Aged(LogAges, "text", "app.log") \cup {Dangling},
          ag \in Aged(GzAges, "gz", "app.log, earlier"),
          o \in Aged(GzAges, "gz", "old") \cup {Dangling},
          n \in Aged({10}, "text", "access.log") :
          fs = [p \in LogPaths |->
                  CASE p = "/var/log/app.log"           -> a
                    [] p = "/var/log/app.log.gz"        -> ag
                    [] p = "/var/log/old.gz"            -> o
                    [] p = "/var/log/nginx/access.log"  -> n
                    [] p = "/var/log/syslog.1"          -> File(StartTime - 100 * Day, "text", "syslog.1")
                    [] OTHER                            -> Absent]
    /\ fs0 = fs

NextRotate ==
    \/ RotateMain \/ RotateStart \/ RotateWalk \/ RotateOther \/ RotateCompress \/ RotateRemove
    \/ RotateSecondPass \/ ExpireWalk \/ ExpireOther \/ ExpireArchive \/ RotateFinish

SpecRotate == InitRotate /\ [][NextRotate]_vars

(***************************************************************************)
(* disk_cleanup.py --clean: clean_package_caches_and_temp                  *)
(***************************************************************************)
\* the trees below /tmp and /var/tmp: the names os.walk lists in a directory
TmpFiles(d) ==
    CASE d = "/tmp"      -> <<"/tmp/a", "/tmp/b", "/tmp/l">>
      [] d = "/tmp/d"    -> <<"/tmp/d/f">>
      [] d = "/var/tmp"  -> <<"/var/tmp/x">>
      [] OTHER           -> <<>>

TmpDirs(d) ==
    CASE d = "/tmp"      -> <<"/tmp/d", "/tmp/e">>
      [] OTHER           -> <<>>

TmpRoots == <<"/tmp", "/var/tmp">>
TmpPaths == {"/tmp", "/tmp/a", "/tmp/b", "/tmp/l", "/tmp/d", "/tmp/d/f", "/tmp/e",
             "/var/tmp", "/var/tmp/x"}

\* outside the two trees: the cache of the package manager, which its clean
\* command empties, and a file a symbolic link of /tmp points to
PkgCache == "/var/cache/pkg"
CleanPaths == TmpPaths \cup {PkgCache, "/etc/motd"}

\* os.path.dirname
Parent(p) ==
    CASE p \in {"/tmp/a", "/tmp/b", "/tmp/l", "/tmp/d", "/tmp/e"} -> "/tmp"
      [] p = "/tmp/d/f"                                 -> "/tmp/d"
      [] p = "/var/tmp/x"                               -> "/var/tmp"
      [] OTHER                                          -> "/"

Dir(mtime) == [present |-> TRUE, mtime |-> mtime, kind |-> "dir", of |-> ""]

Present(names) == SelectSeq(names, IsPresent)

\* os.listdir(d)
ListDir(d) == Range(Present(TmpFiles(d))) \cup Range(Present(TmpDirs(d)))

\* os.walk(top, topdown=False): the directories in the order they are yielded,
\* every directory after its sub-directories
RECURSIVE PostOrder(_)
PostOrder(d) ==
    LET subs == Present(TmpDirs(d))
        below[i \in 0..Len(subs)] ==
            IF i = 0 THEN <<>> ELSE below[i - 1] \o PostOrder(subs[i])
    IN  below[Len(subs)] \o <<d>>

\* a symbolic link to the file at path target; mtime is that of the link itself
Link(mtime, target) == [present |-> TRUE, mtime |-> mtime, kind |-> "link", of |-> target]

\* os.path.getmtime(p): os.stat follows a symbolic link
GetMTime(p) == IF fs[p].kind = "link" THEN fs[fs[p].of].mtime ELSE fs[p].mtime

\* (everything older than now)
cutoffNow == now

\* line 94
cutoff7 == now - 7 * Day

\* the package managers of lines 81-88, in the order they are looked for
CleanManagers == <<"apt-get", "dnf", "yum", "pacman">>

\* lines 117-126
CleanMain ==
    /\ prog = "disk_cleanup" /\ pc = "main"
    /\ IF argv = <<>>
       THEN /\ pc' = "df"
            /\ UNCHANGED <<log, exitcode>>
       ELSE IF argv = <<"--clean">>
       THEN /\ pc' = "clean"
            /\ UNCHANGED <<log, exitcode>>
       ELSE /\ log' = Append(log, Rec("ERROR", "Usage: disk_cleanup.py [--clean]", "", 0))
            /\ pc' = "done"
            /\ exitcode' = 1
    /\ UNCHANGED <<prog, argv, stdin, pending, root, todo, visited, scanvars, rotvars>>

\* lines 73-78
CleanStart ==
    /\ prog = "disk_cleanup" /\ pc = "clean"
    /\ IF NotRoot(euid)
       THEN /\ log' = Append(log, Rec("ERROR", "Run as root to perform cleanup.", "", 0))
            /\ pc' = "done"
            /\ exitcode' = 1
       ELSE /\ log' = Append(log, Rec("INFO", "Cleaning package caches and temporary files...", "", 0))
            /\ pc' = "packages"
            /\ exitcode' = exitcode
    /\ UNCHANGED <<prog, argv, stdin, pending, root, todo, visited, scanvars, rotvars>>

\* the package managers shutil.which may find, and the exit codes of a command
Installed == {{}, {"dnf", "pacman"}}
ExitCodes == {0, 3}

\* (the last manager of the list that is installed)
LastOf(list, inst) ==
    LET found == SelectSeq(list, LAMBDA m : m \in inst)
    IN  IF found = <<>> THEN "" ELSE found[Len(found)]

\* the first manager of the list that is installed, "" when none is
FirstOf(list, inst) ==
    LET found == SelectSeq(list, LAMBDA m : m \in inst)
    IN  IF found = <<>> THEN "" ELSE Head(found)

\* lines 80-98: the cache of the first package manager found is cleaned, a failed
\* command is a warning; then the walks of /tmp and /var/tmp begin
CleanPackages ==
    /\ prog = "disk_cleanup" /\ pc = "packages"
    /\ \E inst \in Installed, c \in ExitCodes :
          LET pm == FirstOf(CleanManagers, inst)
              cleaned == [fs EXCEPT ![PkgCache] = Absent]
          IN
          \/ /\ pm = ""
             /\ UNCHANGED <<visited, log, fs>>
          \/ /\ pm # "" /\ c = 0
             /\ visited' = Append(visited, <<"run", pm, c>>)
             /\ log' = log
             /\ fs' = cleaned
          \/ /\ pm # "" /\ c # 0
             /\ visited' = Append(visited, <<"run", pm, c>>)
             /\ log' = Append(log, Warn("Package cache clean command failed", pm))
             /\ fs' \in {fs, cleaned}
    /\ pc' = "temp"
    /\ pending' = IF fs["/var/tmp"].present
                  THEN PostOrder("/tmp") \o PostOrder("/var/tmp")
                  ELSE PostOrder("/tmp")
    /\ UNCHANGED <<prog, argv, stdin, root, todo, exitcode, scanvars, fs0, now, days, euid,
                   compressed_count, removed_count, faults>>

\* line 98: the next directory of the bottom-up walk, its files before its dirs
CleanWalk ==
    /\ prog = "disk_cleanup" /\ pc = "temp"
    /\ todo = <<>> /\ pending # <<>>
    /\ root' = Head(pending)
    /\ todo' = Present(TmpFiles(Head(pending))) \o Present(TmpDirs(Head(pending)))
    /\ pending' = Tail(pending)
    /\ UNCHANGED <<prog, argv, stdin, pc, log, visited, exitcode, scanvars, rotvars>>

\* os.remove / os.rmdir of p: the entry is gone, its directory is modified now
Removed(f, p) ==
    [f EXCEPT ![p] = Absent, ![Parent(p)] = [f[Parent(p)] EXCEPT !.mtime = now]]

\* lines 104-105 and 112-113: `except Exception: continue`
CleanFailed(op, p) ==
    /\ faults < MaxFaults
    /\ faults' = faults + 1
    /\ visited' = Append(visited, <<op, p, Raised>>)
    /\ UNCHANGED <<fs, log>>

\* lines 99-105, one file
CleanFile ==
    /\ prog = "disk_cleanup" /\ pc = "temp"
    /\ todo # <<>> /\ fs[Head(todo)].kind # "dir"
    /\ LET fpath == Head(todo) IN
        /\ todo' = Tail(todo)
        /\ \/ CleanFailed("getmtime", fpath)
           \/ /\ GetMTime(fpath) < cutoff7
              /\ \/ /\ fs' = Removed(fs, fpath)
                    /\ visited' = Append(visited, <<"remove", fpath, Done>>)
                    /\ UNCHANGED <<log, faults>>
                 \/ CleanFailed("remove", fpath)
           \/ /\ ~(GetMTime(fpath) < cutoff7)
              /\ visited' = Append(visited, <<"keep", fpath, Done>>)
              /\ UNCHANGED <<fs, log, faults>>
    /\ UNCHANGED <<prog, argv, stdin, pc, pending, root, exitcode, scanvars, fs0, now, days,
                   euid, compressed_count, removed_count>>

\* lines 107-113, one directory
CleanDir ==
    /\ prog = "disk_cleanup" /\ pc = "temp"
    /\ todo # <<>> /\ fs[Head(todo)].kind = "dir"
    /\ LET dpath == Head(todo) IN
        /\ todo' = Tail(todo)
        /\ \/ CleanFailed("listdir", dpath)
           \/ /\ ListDir(dpath) = {} /\ GetMTime(dpath) < cutoff7
              /\ \/ /\ fs' = Removed(fs, dpath)
                    /\ visited' = Append(visited, <<"rmdir", dpath, Done>>)
                    /\ UNCHANGED <<log, faults>>
                 \/ CleanFailed("rmdir", dpath)
           \/ /\ ~(ListDir(dpath) = {} /\ GetMTime(dpath) < cutoff7)
              /\ visited' = Append(visited, <<"keep", dpath, Done>>)
              /\ UNCHANGED <<fs, log, faults>>
    /\ UNCHANGED <<prog, argv, stdin, pc, pending, root, exitcode, scanvars, fs0, now, days,
                   euid, compressed_count, removed_count>>

\* lines 114-115 and the end of the script
CleanFinish ==
    /\ prog = "disk_cleanup" /\ pc = "temp"
    /\ todo = <<>> /\ pending = <<>>
    /\ log' = log \o <<Rec("INFO", "Temporary files older than 7 days removed from /tmp and /var/tmp.", "", 0),
                        Rec("INFO", "Disk cleanup completed.", "", 0)>>
    /\ pc' = "done"
    /\ exitcode' = 0
    /\ UNCHANGED <<prog, argv, stdin, pending, root, todo, visited, scanvars, rotvars>>

\* the command lines and the trees disk_cleanup.py is run with
CleanArgs == {<<"--clean">>, <<"--clean", "now">>, <<"-c">>}
TmpAges(ages) == {Dir(StartTime - a * Day) : a \in ages}

InitClean ==
    /\ prog = "disk_cleanup"
    /\ argv \in CleanArgs
    /\ stdin = <<>>
    /\ pc = "main"
    /\ pending = <<>>
    /\ root = ""
    /\ todo = <<>>
    /\ largest_files = <<>>
    /\ log = <<>>
    /\ visited = <<>>
    /\ mode = [p \in {} |-> 0]
    /\ exitcode = -1
    /\ now = StartTime
    /\ days = 0
    /\ euid \in {0, 1000}
    /\ compressed_count = 0
    /\ removed_count = 0
    /\ faults = 0
    /\ \E a \in Aged({7, 8}, "text", "a") \ {Absent},
          f \in Aged({6, 8}, "text", "f"),
          d \in TmpAges({6, 8}),
          e \in TmpAges({7, 8}) \cup {Absent},
          v \in TmpAges({1}) \cup {Absent},
          l \in {Absent, Link(StartTime - Day, "/etc/motd")} :
          fs = [p \in CleanPaths |->
                  CASE p = "/tmp"       -> Dir(StartTime - Day)
                    [] p = "/tmp/a"     -> a
                    [] p = "/tmp/b"     -> File(StartTime - 8 * Day, "text", "b")
                    [] p = "/tmp/l"     -> l
                    [] p = "/etc/motd"  -> File(StartTime - 100 * Day, "text", "motd")
                    [] p = PkgCache     -> File(StartTime - Day, "text", "packages")
                    [] p = "/tmp/d"     -> d
                    [] p = "/tmp/d/f"   -> f
                    [] p = "/tmp/e"     -> e
                    [] p = "/var/tmp"   -> v
                    [] p = "/var/tmp/x" -> IF v.present
                                           THEN File(StartTime - 8 * Day, "text", "x")
                                           ELSE Absent]
    /\ fs0 = fs

(***************************************************************************)
(* process_monitor.py (list_top_processes) and sys_monitor.py: a sequence  *)
(* of sub-reports, each a section header and the output of one command.    *)
(***************************************************************************)
\* the section headers, in the order of the script
ProcSections == <<"==== Top 5 CPU-consuming processes ====",
                  "==== Top 5 Memory-consuming processes ====">>
SysSections == <<"==== System Uptime and Load ====",
                 "==== Memory Usage ====",
                 "==== Disk Usage ====",
                 "==== Top 5 CPU-consuming processes ====",
                 "==== Top 5 Memory-consuming processes ====">>

\* the number of lines a command prints (0: empty output)
OutputLines == {0, 3, 8}

\* how many lines of the output of section i sys_monitor.py logs: all of uptime
\* and df, lines[:2] of free, ps[:6]
SysShown(i, n) ==
    CASE i = 2       -> Min(n, 2)
      [] i \in {4, 5} -> Min(n, 6)
      [] OTHER       -> n

\* one record for the header, one for the output unless it is empty
Section(header, shown) ==
    IF shown = 0 THEN <<Rec("INFO", header, "", 0)>>
    ELSE <<Rec("INFO", header, "", 0), Rec("INFO", "output", header, shown)>>

\* process_monitor.py lines 105-118; kill_process is outside the model, no
\* command line of the model asks for it
ProcMain ==
    /\ prog = "process_monitor" /\ pc = "main"
    /\ IF argv = <<>>
       THEN /\ pc' = "report"
            /\ todo' = ProcSections
            /\ UNCHANGED <<log, exitcode>>
       ELSE /\ log' = Append(log, Rec("ERROR", "Usage: process_monitor.py [kill <process_name|PID>]", "", 0))
            /\ pc' = "done"
            /\ exitcode' = 1
            /\ todo' = todo
    /\ UNCHANGED <<prog, argv, stdin, pending, root, visited, scanvars, rotvars>>

\* process_monitor.py lines 38-48 and 49-59, the section at the head of todo: a
\* failed ps ends list_top_processes, and with it the script, by `return`
ProcSection ==
    /\ prog = "process_monitor" /\ pc = "report"
    /\ todo # <<>>
    /\ \/ \E n \in OutputLines :
             /\ log' = log \o Section(Head(todo), Min(n, 6))
             /\ visited' = Append(visited, <<"report", Head(todo), n>>)
             /\ pc' = IF Tail(todo) = <<>> THEN "done" ELSE pc
             /\ exitcode' = IF Tail(todo) = <<>> THEN 0 ELSE exitcode
       \/ /\ log' = log \o <<Rec("INFO", Head(todo), "", 0),
                              Rec("ERROR", "Failed to retrieve process list", Head(todo), 0)>>
          /\ visited' = Append(visited, <<"report", Head(todo), Raised>>)
          /\ pc' = "done"
          /\ exitcode' = 0
    /\ todo' = Tail(todo)
    /\ UNCHANGED <<prog, argv, stdin, pending, root, scanvars, rotvars>>

\* sys_monitor.py lines 34-36
SysMain ==
    /\ prog = "sys_monitor" /\ pc = "main"
    /\ IF argv = <<>>
       THEN /\ pc' = "report"
            /\ todo' = SysSections
            /\ UNCHANGED <<log, exitcode>>
       ELSE /\ log' = Append(log, Rec("ERROR", "Usage: sys_monitor.py (no arguments)", "", 0))
            /\ pc' = "done"
            /\ exitcode' = 1
            /\ todo' = todo
    /\ UNCHANGED <<prog, argv, stdin, pending, root, visited, scanvars, rotvars>>

\* sys_monitor.py lines 38-45, 47-57, 59-66, 68-78, 80-90: the section at the
\* head of todo
SysSection ==
    /\ prog = "sys_monitor" /\ pc = "report"
    /\ todo # <<>>
    /\ \/ \E n \in OutputLines :
             /\ log' = log \o Section(Head(todo),
                                      SysShown(Len(SysSections) - Len(todo) + 1, n))
             /\ visited' = Append(visited, <<"report", Head(todo), n>>)
       \/ /\ log' = log \o <<Rec("INFO", Head(todo), "", 0),
                              Rec("ERROR", "Could not retrieve", Head(todo), 0)>>
          /\ visited' = Append(visited, <<"report", Head(todo), Raised>>)
    /\ todo' = Tail(todo)
    /\ pc' = IF Tail(todo) = <<>> THEN "done" ELSE pc
    /\ exitcode' = IF Tail(todo) = <<>> THEN 0 ELSE exitcode
    /\ UNCHANGED <<prog, argv, stdin, pending, root, scanvars, rotvars>>

\* a script that reads no file: no filesystem in the state
InitPlain(name, args) ==
    /\ NoLogTree
    /\ prog = name
    /\ argv \in args
    /\ stdin = <<>>
    /\ pc = "main"
    /\ pending = <<>>
    /\ root = ""
    /\ todo = <<>>
    /\ largest_files = <<>>
    /\ log = <<>>
    /\ visited = <<>>
    /\ mode = [p \in {} |-> 0]
    /\ exitcode = -1

InitMonitor ==
    \/ InitPlain("process_monitor", {<<>>, <<"list">>})
    \/ InitPlain("sys_monitor", {<<>>, <<"-v">>})

(***************************************************************************)
(* log_inspect.py.  The content of a file is the list of its lines; a line *)
(* is a number: 0 is a blank line, n > 0 a line of text without blanks     *)
(* around it.                                                              *)
(***************************************************************************)
InspectPaths == <<"/var/log/syslog", "/var/log/messages", "/var/log/app.log",
                  "/var/log/nope">>

\* line 85: str.lower() of the mode words of the model
Lower(w) ==
    CASE w = "TAIL"   -> "tail"
      [] w = "Search" -> "search"
      [] w = "Y"      -> "y"
      [] w = "N"      -> "n"
      [] w = "Yes"    -> "yes"
      [] OTHER        -> w

\* line 46: regex.search(line), for the pattern "err" of the model
Hit(pattern, line) == pattern = "err" /\ line % 25 = 3

\* (the first lines of the file instead of the last)
FirstLines(all_lines, lines) == SubSeq(all_lines, 1, Min(lines, Len(all_lines)))

\* line 66-67: all_lines[start:] with start = -lines if len(all_lines) >= lines else 0
LastLines(all_lines, lines) ==
    IF Len(all_lines) >= lines
    THEN SubSeq(all_lines, Len(all_lines) - lines + 1, Len(all_lines))
    ELSE all_lines

\* line 68: snippet.strip(): the blank lines at both ends are dropped
RECURSIVE StripLines(_)
StripLines(ls) ==
    IF ls = <<>> THEN ls
    ELSE IF Head(ls) = 0 THEN StripLines(Tail(ls))
    ELSE IF ls[Len(ls)] = 0 THEN StripLines(SubSeq(ls, 1, Len(ls) - 1))
    ELSE ls

\* os.path.isfile
IsFile(p) == fs[p].present /\ fs[p].kind = "text"

\* lines 55-68, tail_file: the process exits 1 when the file is missing or cannot
\* be read; otherwise one record "== Last <lines> lines of <log_path> ==" with
\* the snippet is logged and the caller goes on to exit 0
TailFile(log_path, lines) ==
    \/ /\ ~IsFile(log_path)
       /\ log' = Append(log, Rec("ERROR", "Log file not found.", log_path, 0))
       /\ exitcode' = 1
       /\ visited' = visited
    \/ /\ IsFile(log_path)
       /\ log' = Append(log, Rec("ERROR", "Could not read log file", log_path, 0))
       /\ exitcode' = 1
       /\ visited' = Append(visited, <<"read", log_path, Raised>>)
    \/ /\ IsFile(log_path)
       /\ log' = Append(log, Rec("INFO", "== Last lines of ==", log_path,
                                 [lines |-> lines,
                                  snippet |-> StripLines(LastLines(fs[log_path].of, lines))]))
       /\ exitcode' = 0
       /\ visited' = Append(visited, <<"read", log_path, Done>>)

\* lines 84-85
Mode == IF Len(argv) >= 1 THEN Lower(argv[1]) ELSE ""

Usage(text) == Rec("ERROR", text, "", 0)

\* lines 86-89 and 92-95: search or tail without its argument
InspectUsage ==
    /\ prog = "log_inspect" /\ pc = "main"
    /\ Mode \in {"search", "tail"} /\ Len(argv) < 2
    /\ log' = Append(log, Usage("Usage: log_inspect.py search <pattern> | tail <log_file_path>"))
    /\ pc' = "done"
    /\ exitcode' = 1
    /\ UNCHANGED <<prog, argv, stdin, pending, root, todo, visited, scanvars, rotvars>>

\* lines 92-97: tail <log_file_path>
InspectTail ==
    /\ prog = "log_inspect" /\ pc = "main"
    /\ Mode = "tail" /\ Len(argv) >= 2
    /\ TailFile(argv[2], 100)
    /\ pc' = "done"
    /\ UNCHANGED <<prog, argv, stdin, pending, root, todo, scanvars, rotvars>>

\* lines 98-100 and 70-81: no mode, or a mode that is neither search nor tail
InspectDefault ==
    /\ prog = "log_inspect" /\ pc = "main"
    /\ Mode \notin {"search", "tail"}
    /\ IF IsFile("/var/log/syslog") THEN TailFile("/var/log/syslog", 50)
       ELSE IF IsFile("/var/log/messages") THEN TailFile("/var/log/messages", 50)
       ELSE /\ log' = Append(log, Warn("No syslog or messages log found.", ""))
            /\ exitcode' = 0
            /\ visited' = visited
    /\ pc' = "done"
    /\ UNCHANGED <<prog, argv, stdin, pending, root, todo, scanvars, rotvars>>

\* lines 86-90 and 37-40: search <pattern>; the files of /var/log are listed
SearchStart ==
    /\ prog = "log_inspect" /\ pc = "main"
    /\ Mode = "search" /\ Len(argv) >= 2
    /\ log' = Append(log, Rec("INFO", "Searching for pattern in /var/log...", "", 0))
    /\ todo' = Present(InspectPaths)
    /\ pc' = "search"
    /\ UNCHANGED <<prog, argv, stdin, pending, root, visited, exitcode, scanvars, rotvars>>

\* lines 41-51, one file: every matching line is logged; a file that cannot be
\* opened is skipped
SearchFile ==
    /\ prog = "log_inspect" /\ pc = "search"
    /\ todo # <<>>
    /\ LET file_path == Head(todo)
           hits == SelectSeq(fs[file_path].of, LAMBDA l : Hit(argv[2], l))
       IN  \/ /\ log' = log \o [i \in 1..Len(hits) |->
                                    Rec("INFO", "match", file_path, hits[i])]
              /\ visited' = Append(visited, <<"search", file_path, Len(hits)>>)
           \/ /\ log' = log
              /\ visited' = Append(visited, <<"search", file_path, Raised>>)
    /\ todo' = Tail(todo)
    /\ UNCHANGED <<prog, argv, stdin, pc, pending, root, exitcode, scanvars, rotvars>>

\* lines 52-53 and 91
SearchEnd ==
    /\ prog = "log_inspect" /\ pc = "search"
    /\ todo = <<>>
    /\ log' = IF \A i \in 1..Len(visited) : visited[i][3] <= 0
              THEN Append(log, Rec("INFO", "No matches found.", "", 0))
              ELSE log
    /\ pc' = "done"
    /\ exitcode' = 0
    /\ UNCHANGED <<prog, argv, stdin, pending, root, todo, visited, scanvars, rotvars>>

\* the files log_inspect.py is run on: Lines(n, gap) has n lines, every gap-th
\* of them blank
Lines(n, gap) == [i \in 1..n |-> IF i % gap = 0 THEN 0 ELSE i]
LineCounts == {0, 1, 49, 50, 51, 59, 99, 100, 101, 109, 120}
Gaps == {10, 1000}
Contents == {File(StartTime, "text", Lines(n, g)) : n \in LineCounts, g \in Gaps}

\* a path of /var/log at which there is no file
NoLog == [present |-> FALSE, mtime |-> 0, kind |-> "none", of |-> <<>>]

InspectArgs == {<<>>, <<"tail", "/var/log/app.log">>, <<"TAIL", "/var/log/app.log">>,
                <<"tail">>, <<"tail", "/var/log/nope">>, <<"search">>,
                <<"search", "err">>, <<"follow">>, <<"grep", "err">>}

InitInspect ==
    /\ prog = "log_inspect"
    /\ argv \in InspectArgs
    /\ stdin = <<>>
    /\ pc = "main"
    /\ pending = <<>>
    /\ root = ""
    /\ todo = <<>>
    /\ largest_files = <<>>
    /\ log = <<>>
    /\ visited = <<>>
    /\ mode = [p \in {} |-> 0]
    /\ exitcode = -1
    /\ now = StartTime
    /\ days = 0
    /\ euid = 0
    /\ compressed_count = 0
    /\ removed_count = 0
    /\ faults = 0
    /\ \E sl \in Contents \cup {NoLog}, a \in Contents,
          m \in {NoLog, File(StartTime, "text", Lines(60, 1000))} :
          /\ ~sl.present \/ a = sl
          /\ fs = [p \in Range(InspectPaths) |->
                    CASE p = "/var/log/syslog"   -> sl
                      [] p = "/var/log/messages" -> m
                      [] p = "/var/log/app.log"  -> a
                      [] OTHER                   -> NoLog]
    /\ fs0 = fs

(***************************************************************************)
(* service_manager.py, user_manager.py, update_system.py: wrappers of one  *)
(* external command (update_system.py: of one or two).  A command is the   *)
(* list of its words; todo holds the commands still to run.                *)
(***************************************************************************)
\* subprocess.run(cmd) returned c: the record of the history
Ran(cmd, c) == <<"run", cmd, c>>

\* (every failure exits with the generic code 1)
ExitGeneric(c) == IF c = 0 THEN 0 ELSE 1

\* sys.exit(result.returncode), or the end of the script after a command that
\* returned 0: the exit status of the process, one byte
ExitWith(c) == c % 256

\* the warning for a caller who is not root
RootWarning(text) == IF euid # 0 THEN <<Rec("WARNING", text, "", 0)>> ELSE <<>>

\* service_manager.py line 34
VALID_ACTIONS == {"start", "stop", "restart", "status", "enable", "disable"}

\* service_manager.py lines 37-63: the usage check, the root warning, and the
\* choice of systemctl or service
ServiceMain ==
    /\ prog = "service_manager" /\ pc = "main"
    /\ IF Len(argv) # 2 \/ argv[1] \notin VALID_ACTIONS
       THEN /\ log' = Append(log, Usage("Usage: service_manager.py <start|stop|restart|status|enable|disable> <service_name>"))
            /\ pc' = "done" /\ exitcode' = 1 /\ todo' = todo
       ELSE \E tool \in {"systemctl", "service", ""} :
            LET warned == log \o (IF argv[1] # "status"
                                  THEN RootWarning("This action may require root privileges to succeed.")
                                  ELSE <<>>)
            IN  IF tool = "systemctl"
                THEN /\ todo' = <<(<<"systemctl", argv[1], argv[2]>>)>>
                     /\ log' = warned
                     /\ pc' = "run" /\ exitcode' = exitcode
                ELSE IF tool = "service" /\ argv[1] \notin {"enable", "disable"}
                THEN /\ todo' = <<(<<"service", argv[2], argv[1]>>)>>
                     /\ log' = warned
                     /\ pc' = "run" /\ exitcode' = exitcode
                ELSE /\ log' = Append(warned,
                             Rec("ERROR", IF tool = "service"
                                          THEN "Enable/disable not supported with this service manager."
                                          ELSE "No service management tool found (systemctl or service).",
                                 "", 0))
                     /\ pc' = "done" /\ exitcode' = 1 /\ todo' = todo
    /\ UNCHANGED <<prog, argv, stdin, pending, root, visited, scanvars, rotvars>>

ServiceSuccess == "Service started/stopped/... successfully."

\* service_manager.py lines 65-93: the command is run and its result reported
ServiceRun ==
    /\ prog = "service_manager" /\ pc = "run"
    /\ \/ /\ log' = Append(log, Rec("ERROR", "Failed to execute service command", "", 0))
          /\ exitcode' = 1
          /\ visited' = Append(visited, Ran(Head(todo), Raised))
       \/ \E c \in ExitCodes, output \in {"", "text"} :
             /\ visited' = Append(visited, Ran(Head(todo), c))
             /\ exitcode' = ExitWith(c)
             /\ IF argv[1] = "status"
                THEN log' = log \o (IF output # "" THEN <<Rec("INFO", output, "", 0)>> ELSE <<>>)
                                \o (IF c # 0
                                    THEN <<Rec("ERROR", "Service status check failed (exit code).", "", c)>>
                                    ELSE <<>>)
                ELSE IF c = 0
                THEN log' = Append(log, Rec("INFO", ServiceSuccess, "", 0))
                ELSE log' = Append(log, Rec("ERROR", "Failed to start/stop/... service.", output, c))
    /\ todo' = <<>>
    /\ pc' = "done"
    /\ UNCHANGED <<prog, argv, stdin, pending, root, scanvars, rotvars>>

\* user_manager.py line 27, ACTIONS
USER_ACTIONS == {"adduser", "deluser", "addgroup", "delgroup", "addtogroup",
            "removefromgroup", "lock", "unlock"}

\* user_manager.py lines 58-100: the command of an action
UserCommand(args) ==
    CASE args[1] = "adduser"  -> IF Len(args) > 2 /\ args[3] # ""
                                 THEN <<"useradd", "-m", args[2], "-G", args[3]>>
                                 ELSE <<"useradd", "-m", args[2]>>
      [] args[1] = "deluser"  -> <<"userdel", "-r", args[2]>>
      [] args[1] = "addgroup" -> <<"groupadd", args[2]>>
      [] args[1] = "delgroup" -> <<"groupdel", args[2]>>
      [] args[1] = "addtogroup"      -> <<"usermod", "-a", "-G", args[3], args[2]>>
      [] args[1] = "removefromgroup" -> <<"gpasswd", "-d", args[2], args[3]>>
      [] args[1] = "lock"     -> <<"usermod", "-L", args[2]>>
      [] args[1] = "unlock"   -> <<"usermod", "-U", args[2]>>

\* user_manager.py lines 43-56 and the checks of lines 80-82 and 87-89
UserMain ==
    /\ prog = "user_manager" /\ pc = "main"
    /\ IF Len(argv) < 2
       THEN /\ log' = Append(log, Usage("Usage: user_manager.py <action> <name> [extra]"))
            /\ pc' = "done" /\ exitcode' = 1 /\ todo' = todo
       ELSE IF argv[1] \notin USER_ACTIONS
       THEN /\ log' = Append(log, Rec("ERROR", "Unknown action", "", 0))
            /\ pc' = "done" /\ exitcode' = 1 /\ todo' = todo
       ELSE IF argv[1] \in {"addtogroup", "removefromgroup"} /\ Len(argv) < 3
       THEN /\ log' = log \o RootWarning("This operation likely requires root privileges.")
                         \o <<Usage("Usage: user_manager.py addtogroup|removefromgroup <username> <group>")>>
            /\ pc' = "done" /\ exitcode' = 1 /\ todo' = todo
       ELSE /\ log' = log \o RootWarning("This operation likely requires root privileges.")
            /\ todo' = <<UserCommand(argv)>>
            /\ pc' = "run" /\ exitcode' = exitcode
    /\ UNCHANGED <<prog, argv, stdin, pending, root, visited, scanvars, rotvars>>

UserSuccess == "User/group added/removed/locked/unlocked successfully."

\* user_manager.py lines 29-40 (run_cmd) and the message after it
UserRun ==
    /\ prog = "user_manager" /\ pc = "run"
    /\ \/ /\ log' = Append(log, Rec("ERROR", "Failed to execute command", "", 0))
          /\ exitcode' = 1
          /\ visited' = Append(visited, Ran(Head(todo), Raised))
       \/ \E c \in ExitCodes :
             /\ visited' = Append(visited, Ran(Head(todo), c))
             /\ exitcode' = ExitWith(c)
             /\ log' = IF c # 0
                       THEN Append(log, Rec("ERROR", "Command failed", "", c))
                       ELSE Append(log, Rec("INFO", UserSuccess, "", 0))
    /\ todo' = <<>>
    /\ pc' = "done"
    /\ UNCHANGED <<prog, argv, stdin, pending, root, scanvars, rotvars>>

\* update_system.py lines 34-52: the package managers in the order they are
\* looked for, and the commands run for each
UpdateManagers == <<"apt-get", "dnf", "yum", "zypper", "pacman">>

UpdateCommands(pm) ==
    CASE pm = "apt-get" -> <<(<<"apt-get", "update">>), (<<"apt-get", "-y", "upgrade">>)>>
      [] pm = "dnf"     -> <<(<<"dnf", "-y", "upgrade">>)>>
      [] pm = "yum"     -> <<(<<"yum", "-y", "update">>)>>
      [] pm = "zypper"  -> <<(<<"zypper", "--non-interactive", "refresh">>),
                             (<<"zypper", "--non-interactive", "update">>)>>
      [] pm = "pacman"  -> <<(<<"pacman", "-Syu", "--noconfirm">>)>>

UpdateSuccess == "System update completed successfully."

\* shutil.which(pm) finds pm: the executables on the PATH are the entries of mode
OnPath == DOMAIN mode

\* update_system.py lines 21-33 and 53-55
UpdateMain ==
    /\ prog = "update_system" /\ pc = "main"
    /\ IF argv # <<>>
       THEN /\ log' = Append(log, Usage("Usage: update_system.py (no arguments)"))
            /\ pc' = "done" /\ exitcode' = 1 /\ todo' = todo
       ELSE LET pm == FirstOf(UpdateManagers, OnPath)
                warned == log \o RootWarning("This script should be run as root to apply system updates.")
            IN  IF pm = ""
            THEN /\ log' = Append(warned, Rec("ERROR", "No supported package manager found on this system.", "", 0))
                 /\ pc' = "done" /\ exitcode' = 1 /\ todo' = todo
            ELSE /\ log' = warned
                 /\ todo' = UpdateCommands(pm)
                 /\ pc' = "run" /\ exitcode' = exitcode
    /\ UNCHANGED <<prog, argv, stdin, pending, root, visited, scanvars, rotvars>>

\* update_system.py lines 35-52 and 56-60, one subprocess.run(..., check=True): a
\* non-zero exit code ends the script with that code; an exception other than
\* CalledProcessError is not caught
UpdateRun ==
    /\ prog = "update_system" /\ pc = "run"
    /\ todo # <<>>
    /\ LET started == Append(log, Rec("INFO", "Updating/upgrading packages...", "", 0)) IN
       \/ /\ visited' = Append(visited, Ran(Head(todo), Uncaught))
          /\ log' = started
          /\ pc' = "crashed" /\ exitcode' = 1
       \/ \E c \in ExitCodes :
             /\ visited' = Append(visited, Ran(Head(todo), c))
             /\ IF c # 0
                THEN /\ log' = Append(started, Rec("ERROR", "Package update failed", "", c))
                     /\ pc' = "done" /\ exitcode' = ExitWith(c)
                ELSE IF Tail(todo) = <<>>
                THEN /\ log' = Append(started, Rec("INFO", UpdateSuccess, "", 0))
                     /\ pc' = "done" /\ exitcode' = 0
                ELSE /\ log' = started
                     /\ pc' = pc /\ exitcode' = exitcode
    /\ todo' = Tail(todo)
    /\ UNCHANGED <<prog, argv, stdin, pending, root, scanvars, rotvars>>

\* a script run by root or by another user on the files tree, with the lines
\* typed at its prompts
InitTyped(name, args, typed, tree) ==
    /\ prog = name
    /\ argv \in args
    /\ stdin \in typed
    /\ pc = "main"
    /\ pending = <<>>
    /\ root = ""
    /\ todo = <<>>
    /\ largest_files = <<>>
    /\ log = <<>>
    /\ visited = <<>>
    /\ mode = [p \in {} |-> 0]
    /\ exitcode = -1
    /\ fs = tree
    /\ fs0 = tree
    /\ now = StartTime
    /\ days = 0
    /\ euid \in {0, 1000}
    /\ compressed_count = 0
    /\ removed_count = 0
    /\ faults = 0

\* a script that reads nothing from its standard input
InitOn(name, args, tree) == InitTyped(name, args, {<<>>}, tree)

NoFiles == [p \in {} |-> Absent]

\* the command lines the three wrappers are run with
ServiceArgs == {<<>>, <<"start">>, <<"start", "nginx">>, <<"status", "nginx">>,
                <<"enable", "nginx">>, <<"reload", "nginx">>,
                <<"stop", "nginx", "now">>}
UserArgs == {<<>>, <<"lock">>, <<"lock", "alice">>, <<"lock", "alice", "bob">>,
             <<"adduser", "alice">>, <<"adduser", "alice", "staff">>,
             <<"addtogroup", "alice">>, <<"addtogroup", "alice", "staff">>,
             <<"removefromgroup", "alice">>, <<"passwd", "alice">>,
             <<"deluser", "alice", "staff", "now">>}
UpdateArgs == {<<>>, <<"-y">>}

\* update_system.py on a system with any of the package managers installed
InitUpdate ==
    /\ prog = "update_system"
    /\ argv \in UpdateArgs
    /\ stdin = <<>>
    /\ pc = "main"
    /\ pending = <<>>
    /\ root = ""
    /\ todo = <<>>
    /\ largest_files = <<>>
    /\ log = <<>>
    /\ visited = <<>>
    /\ \E inst \in SUBSET Range(UpdateManagers) : mode = [pm \in inst |-> 7 * 64 + 5 * 8 + 5]
    /\ exitcode = -1
    /\ fs = NoFiles
    /\ fs0 = NoFiles
    /\ now = StartTime
    /\ days = 0
    /\ euid \in {0, 1000}
    /\ compressed_count = 0
    /\ removed_count = 0
    /\ faults = 0

InitWrapper ==
    \/ InitOn("service_manager", ServiceArgs, NoFiles)
    \/ InitOn("user_manager", UserArgs, NoFiles)
    \/ InitUpdate

(***************************************************************************)
(* rsync_magic.py                                                          *)
(***************************************************************************)
\* lines 19-20
LOG_FILE == "/var/log/rsync_magic.log"
EXCLUDE_FILE == "/etc/rsync_magic_excludes.txt"

\* lines 30-42: dry_run, and args after `args.pop(0)`
DryRun == argv # <<>> /\ argv[1] = "--dry-run"
RsyncArgs == IF DryRun THEN Tail(argv) ELSE argv

\* os.path.isdir
IsDir(p) == fs[p].present /\ fs[p].kind = "dir"

\* lines 53-77: the rsync command (the fixed options as one word)
RsyncCommand(source, dest) ==
    <<"rsync", "-avzhuPcxAX --delete --numeric-ids --inplace --backup --backup-dir">>
        \o (IF DryRun THEN <<"--dry-run">> ELSE <<>>)
        \o (IF IsFile(EXCLUDE_FILE) THEN <<"--exclude-from">> ELSE <<>>)
        \o <<source, dest>>

RsyncUsage == Usage("Usage: rsync_magic.py [--dry-run] <source> <destination>")

\* lines 23-40: logging is set up with a FileHandler that opens LOG_FILE for
\* appending (an open that fails is not caught), then the arguments are parsed;
\* every record that is logged is also written to LOG_FILE
RsyncMain ==
    /\ prog = "rsync_magic" /\ pc = "main"
    /\ \/ /\ pc' = "crashed" /\ exitcode' = 1
          /\ visited' = Append(visited, <<"open", LOG_FILE, Uncaught>>)
          /\ UNCHANGED <<fs, log>>
       \/ /\ visited' = visited
          /\ IF Len(argv) = 0 \/ Len(argv) > 3 \/ Len(RsyncArgs) # 2
             THEN /\ log' = Append(log, RsyncUsage)
                  /\ fs' = [fs EXCEPT ![LOG_FILE] = File(now, "text", "records")]
                  /\ pc' = "done" /\ exitcode' = 1
             ELSE /\ log' = log
                  /\ fs' = [fs EXCEPT ![LOG_FILE] =
                               IF @.present THEN @ ELSE File(now, "text", "")]
                  /\ pc' = "prepare" /\ exitcode' = exitcode
    /\ UNCHANGED <<prog, argv, stdin, pending, root, todo, scanvars, fs0, now, days, euid,
                   compressed_count, removed_count, faults>>

\* lines 43-77: the source must be a directory; the destination directory is
\* created (an os.makedirs that raises is not caught); the command is built
RsyncPrepare ==
    /\ prog = "rsync_magic" /\ pc = "prepare"
    /\ LET source == RsyncArgs[1]
           dest == RsyncArgs[2]
           logged(f) == [f EXCEPT ![LOG_FILE] = File(now, "text", "records")]
       IN  IF ~IsDir(source)
           THEN /\ log' = Append(log, Rec("ERROR", "Error: Source directory not found!", source, 0))
                /\ fs' = logged(fs)
                /\ pc' = "done" /\ exitcode' = 2
                /\ UNCHANGED <<todo, visited>>
           ELSE \/ /\ visited' = Append(visited, <<"makedirs", dest, Uncaught>>)
                   /\ pc' = "crashed" /\ exitcode' = 1
                   /\ UNCHANGED <<fs, log, todo>>
                \/ /\ ~(fs[dest].present /\ ~IsDir(dest))
                   /\ visited' = Append(visited, <<"makedirs", dest, Done>>)
                   /\ fs' = logged(IF IsDir(dest) THEN fs
                                   ELSE [fs EXCEPT ![dest] = Dir(now)])
                   /\ log' = log \o <<Rec("INFO", "Starting rsync at", "", 0)>>
                                 \o (IF DryRun
                                     THEN <<Rec("INFO", "Running in DRY RUN mode...", "", 0)>>
                                     ELSE <<>>)
                   /\ todo' = <<RsyncCommand(source, dest)>>
                   /\ pc' = "run" /\ exitcode' = exitcode
    /\ UNCHANGED <<prog, argv, stdin, pending, root, scanvars, fs0, now, days, euid,
                   compressed_count, removed_count, faults>>

RsyncSuccess == "rsync completed at"

\* what rsync does to the destination: nothing with --dry-run; otherwise the
\* source is copied into it, all of it when rsync returns 0
Synced(f, cmd, c, wrote) ==
    LET dest == cmd[Len(cmd)] IN
    IF \E i \in 1..Len(cmd) : cmd[i] = "--dry-run" THEN f
    ELSE IF c = 0 \/ wrote THEN [f EXCEPT ![dest] = [Dir(now) EXCEPT !.of = cmd[Len(cmd) - 1]]]
    ELSE f

\* lines 78-92
RsyncRun ==
    /\ prog = "rsync_magic" /\ pc = "run"
    /\ \/ /\ visited' = Append(visited, Ran(Head(todo), Raised))
          /\ log' = Append(log, Rec("ERROR", "Failed to run rsync", "", 0))
          /\ exitcode' = 1
          /\ fs' = fs
       \/ \E c \in ExitCodes, wrote \in BOOLEAN :
             /\ visited' = Append(visited, Ran(Head(todo), c))
             /\ fs' = Synced(fs, Head(todo), c, wrote)
             /\ exitcode' = ExitWith(c)
             /\ log' = log \o <<Rec("INFO", "rsync output", "", 0)>>
                           \o (IF c = 0
                               THEN <<Rec("INFO", RsyncSuccess, "", 0)>>
                               ELSE <<Rec("ERROR", "rsync exited with errors (exit code)", "", c)>>)
    /\ todo' = <<>>
    /\ pc' = "done"
    /\ UNCHANGED <<prog, argv, stdin, pending, root, scanvars, fs0, now, days, euid,
                   compressed_count, removed_count, faults>>

RsyncPaths == {"/src", "/nosrc", "/dest", "/newdest", "--dry-run", "/x", LOG_FILE,
               EXCLUDE_FILE}
RsyncCmdLines == {<<>>, <<"/src">>, <<"/src", "/dest">>, <<"/src", "/newdest">>,
                  <<"/nosrc", "/newdest">>, <<"--dry-run", "/src", "/newdest">>,
                  <<"--dry-run", "/src", "/dest">>, <<"/src", "--dry-run", "/dest">>,
                  <<"/src", "--dry-run">>, <<"--dry-run", "/src">>,
                  <<"/src", "/dest", "/x", "/x">>, <<"/src", "/dest", "/x">>}

InitRsync ==
    \E lf \in {Absent, File(StartTime - Day, "text", "records")},
       ef \in {Absent, File(StartTime - Day, "text", "excludes")} :
       InitOn("rsync_magic", RsyncCmdLines,
              [p \in RsyncPaths |->
                 CASE p = LOG_FILE      -> lf
                   [] p = EXCLUDE_FILE  -> ef
                   [] p \in {"/src", "/dest"} -> Dir(StartTime - Day)
                   [] OTHER             -> Absent])

(***************************************************************************)
(* backup.py and restore.py                                                *)
(***************************************************************************)
\* backup.py lines 48-51: <dest_dir>/<base_name>-backup-<YYYYMMDD>.tar.gz, for
\* the source /src and the day of the run
ArchivePath(dest_dir) ==
    CASE dest_dir = "/backups"    -> "/backups/src-backup-20261104.tar.gz"
      [] dest_dir = "/newbackups" -> "/newbackups/src-backup-20261104.tar.gz"

\* an archive: kind "tar" when complete, "partial" when cut short
Archive(kind, of) == [present |-> TRUE, mtime |-> now, kind |-> kind, of |-> of]

\* backup.py lines 67-71
BackupMain ==
    /\ prog = "backup" /\ pc = "main"
    /\ IF Len(argv) # 2
       THEN /\ log' = Append(log, Usage("Usage: backup.py <source_directory> <destination_directory>"))
            /\ pc' = "done" /\ exitcode' = 1
       ELSE /\ pc' = "prepare"
            /\ UNCHANGED <<log, exitcode>>
    /\ UNCHANGED <<prog, argv, stdin, pending, root, todo, visited, scanvars, rotvars>>

\* backup.py lines 36-45 (and 72-75: an exception of create_backup is exit 1)
BackupPrepare ==
    /\ prog = "backup" /\ pc = "prepare"
    /\ LET source_dir == argv[1]
           dest_dir == argv[2]
       IN  IF ~IsDir(source_dir)
           THEN /\ log' = Append(log, Rec("ERROR", "Source directory not found!", source_dir, 0))
                /\ pc' = "done" /\ exitcode' = 1
                /\ UNCHANGED <<fs, visited>>
           ELSE \/ /\ visited' = Append(visited, <<"makedirs", dest_dir, Raised>>)
                   /\ log' = Append(log, Rec("ERROR", "Failed to create destination directory", dest_dir, 0))
                   /\ pc' = "done" /\ exitcode' = 1
                   /\ fs' = fs
                \/ /\ visited' = Append(visited, <<"makedirs", dest_dir, Done>>)
                   /\ fs' = IF IsDir(dest_dir) THEN fs ELSE [fs EXCEPT ![dest_dir] = Dir(now)]
                   /\ pc' = "write"
                   /\ UNCHANGED <<log, exitcode>>
    /\ UNCHANGED <<prog, argv, stdin, pending, root, todo, scanvars, fs0, now, days, euid,
                   compressed_count, removed_count, faults>>

\* backup.py lines 59-64, after tarfile raised and left f: an archive that exists
\* is removed, then the failure is logged; an os.remove that raises leaves the
\* handler before the failure is logged
BackupFailed(f, archive_path) ==
    /\ pc' = "done" /\ exitcode' = 1
    /\ IF ~f[archive_path].present
       THEN /\ fs' = f
            /\ visited' = Append(visited, <<"write", archive_path, Raised>>)
            /\ log' = Append(log, Rec("ERROR", "Backup failed", argv[1], 0))
       ELSE \/ /\ fs' = [f EXCEPT ![archive_path] = Absent]
               /\ visited' = visited \o <<(<<"write", archive_path, Raised>>),
                                           (<<"remove", archive_path, Done>>)>>
               /\ log' = Append(log, Rec("ERROR", "Backup failed", argv[1], 0))
            \/ /\ fs' = f
               /\ visited' = visited \o <<(<<"write", archive_path, Raised>>),
                                           (<<"remove", archive_path, Raised>>)>>
               /\ log' = log

\* backup.py lines 53-64: tarfile.open(archive_path, "w:gz") creates or truncates
\* the archive, tar.add fills it
BackupWrite ==
    /\ prog = "backup" /\ pc = "write"
    /\ LET archive_path == ArchivePath(argv[2]) IN
       \/ /\ fs' = [fs EXCEPT ![archive_path] = Archive("tar", argv[1])]
          /\ visited' = Append(visited, <<"write", archive_path, Done>>)
          /\ log' = Append(log, Rec("INFO", "Backup successful", archive_path, 0))
          /\ pc' = "done" /\ exitcode' = 0
       \/ BackupFailed(fs, archive_path)
       \/ BackupFailed([fs EXCEPT ![archive_path] = Archive("partial", argv[1])],
                       archive_path)
    /\ UNCHANGED <<prog, argv, stdin, pending, root, todo, scanvars, fs0, now, days, euid,
                   compressed_count, removed_count, faults>>

BackupPaths == {"/src", "/nosrc", "/backups", "/newbackups",
                ArchivePath("/backups"), ArchivePath("/newbackups")}
BackupArgs == {<<>>, <<"/src">>, <<"/src", "/backups">>, <<"/src", "/newbackups">>,
               <<"/nosrc", "/newbackups">>, <<"/src", "/backups", "/src">>}

InitBackup ==
    \E old \in {Absent, [present |-> TRUE, mtime |-> StartTime - 3600, kind |-> "tar",
                         of |-> "/src, earlier"]} :
       InitOn("backup", BackupArgs,
              [p \in BackupPaths |->
                 CASE p \in {"/src", "/backups"}  -> Dir(StartTime - Day)
                   [] p = ArchivePath("/backups") -> old
                   [] OTHER                       -> Absent])

\* restore.py lines 57-61
RestoreMain ==
    /\ prog = "restore" /\ pc = "main"
    /\ IF Len(argv) < 1 \/ Len(argv) > 2
       THEN /\ log' = Append(log, Usage("Usage: restore.py <archive.tar.gz> [target_directory]"))
            /\ pc' = "done" /\ exitcode' = 1
       ELSE /\ pc' = "restore"
            /\ UNCHANGED <<log, exitcode>>
    /\ UNCHANGED <<prog, argv, stdin, pending, root, todo, visited, scanvars, rotvars>>

\* restore.py lines 34-54 (and 62-65: an exception of restore_archive is exit 1);
\* an extraction that fails may have written part of the archive
RestoreExtract ==
    /\ prog = "restore" /\ pc = "restore"
    /\ LET archive_path == argv[1]
           given == IF Len(argv) = 2 THEN argv[2] ELSE "."
           target_dir == IF given = "" THEN "." ELSE given
           made == IF IsDir(target_dir) THEN fs ELSE [fs EXCEPT ![target_dir] = Dir(now)]
       IN  IF ~(fs[archive_path].present /\ fs[archive_path].kind \in {"tar", "partial"})
           THEN /\ log' = Append(log, Rec("ERROR", "Backup archive not found!", archive_path, 0))
                /\ exitcode' = 1
                /\ UNCHANGED <<fs, visited>>
           ELSE \/ /\ visited' = Append(visited, <<"makedirs", target_dir, Raised>>)
                   /\ log' = Append(log, Rec("ERROR", "Failed to create target directory", target_dir, 0))
                   /\ exitcode' = 1
                   /\ fs' = fs
                \/ /\ fs[archive_path].kind = "tar"
                   /\ visited' = Append(visited, <<"extract", target_dir, Done>>)
                   /\ fs' = [made EXCEPT ![target_dir] =
                                [Dir(now) EXCEPT !.of = fs[archive_path].of]]
                   /\ log' = Append(log, Rec("INFO", "Restore successful to directory", target_dir, 0))
                   /\ exitcode' = 0
                \/ \E wrote \in BOOLEAN :
                   /\ visited' = Append(visited, <<"extract", target_dir, Raised>>)
                   /\ fs' = IF wrote
                            THEN [made EXCEPT ![target_dir] = [Dir(now) EXCEPT !.of = "part"]]
                            ELSE made
                   /\ log' = Append(log, Rec("ERROR", "Restore failed", "", 0))
                   /\ exitcode' = 1
    /\ pc' = "done"
    /\ UNCHANGED <<prog, argv, stdin, pending, root, todo, scanvars, fs0, now, days, euid,
                   compressed_count, removed_count, faults>>

RestorePaths == {"/backups/a.tar.gz", "/backups/cut.tar.gz", "/backups/none.tar.gz",
                 "/target", "/newtarget", "."}
RestoreArgs == {<<>>, <<"/backups/a.tar.gz">>, <<"/backups/a.tar.gz", "/target">>,
                <<"/backups/a.tar.gz", "/newtarget">>, <<"/backups/a.tar.gz", "">>,
                <<"/backups/cut.tar.gz", "/newtarget">>,
                <<"/backups/none.tar.gz", "/newtarget">>,
                <<"/backups/a.tar.gz", "/target", "/newtarget">>}

InitRestore ==
    InitOn("restore", RestoreArgs,
           [p \in RestorePaths |->
              CASE p = "/backups/a.tar.gz"   -> [present |-> TRUE, mtime |-> StartTime - Day,
                                                 kind |-> "tar", of |-> "/src"]
                [] p = "/backups/cut.tar.gz" -> [present |-> TRUE, mtime |-> StartTime - Day,
                                                 kind |-> "partial", of |-> "/src"]
                [] p \in {"/target", "."}    -> Dir(StartTime - Day)
                [] OTHER                     -> Absent])

(***************************************************************************)
(* zimbra_backup.py: the export of one mailbox to a .tgz file, after three *)
(* prompts.  stdin[i] is the line typed at the i-th prompt; a standard     *)
(* input that ends before the prompt raises EOFError, which the script     *)
(* does not catch, and Ctrl-C raises KeyboardInterrupt, which it does.     *)
(* The owner of a directory is kept in the field of of its record: "" is   *)
(* the owner it was created with.                                          *)
(***************************************************************************)
Interrupt == "^C"

\* input() at the i-th prompt raises EOFError
Closed(i) == Len(stdin) < i

\* input() at the i-th prompt raises KeyboardInterrupt
Interrupted(i) == Len(stdin) >= i /\ stdin[i] = Interrupt

\* lines 34-35: str.strip() on the lines of the model
StripText(w) ==
    CASE w = " "          -> ""
      [] w = " /data/zb " -> "/data/zb"
      [] OTHER            -> w

\* lines 36-37
BackupDirOf(line) ==
    IF StripText(line) = "" THEN "/opt/zimbra/backups" ELSE StripText(line)

\* lines 49-51: os.path.join(backup_dir, f"{email}_{timestamp}.tgz")
BackupFileOf(backup_dir) ==
    CASE backup_dir = "/opt/zimbra/backups" -> "/opt/zimbra/backups/u_0.tgz"
      [] backup_dir = "/data/zb"            -> "/data/zb/u_0.tgz"

\* lines 69-70: the KeyboardInterrupt handler prints and the script ends
ZimbraInterrupted ==
    /\ log' = Append(log, Rec("PRINT", "Operation cancelled by user.", "", 0))
    /\ pc' = "done" /\ exitcode' = 0

\* an exception that nothing catches: traceback, exit status 1
ZimbraUncaught ==
    /\ log' = log
    /\ pc' = "crashed" /\ exitcode' = 1

\* lines 34-51: the two prompts, os.makedirs(backup_dir, exist_ok=True) outside
\* any handler, os.chown to zimbra:zimbra inside one (only root may give a
\* directory away; the account zimbra may be missing)
ZimbraPrompt ==
    /\ prog = "zimbra_backup" /\ pc = "main"
    /\ IF Closed(1) \/ (~Interrupted(1) /\ Closed(2))
       THEN ZimbraUncaught /\ UNCHANGED <<fs, visited>>
       ELSE IF Interrupted(1) \/ Interrupted(2)
       THEN ZimbraInterrupted /\ UNCHANGED <<fs, visited>>
       ELSE LET backup_dir == BackupDirOf(stdin[2])
                made == IF IsDir(backup_dir) THEN fs
                        ELSE [fs EXCEPT ![backup_dir] = Dir(now)]
            IN  \/ /\ visited' = Append(visited, <<"makedirs", backup_dir, Uncaught>>)
                   /\ fs' = fs
                   /\ ZimbraUncaught
                \/ /\ ~(fs[backup_dir].present /\ ~IsDir(backup_dir))
                   /\ pc' = "confirm" /\ exitcode' = exitcode
                   /\ \/ /\ euid = 0
                         /\ visited' = visited \o <<(<<"makedirs", backup_dir, Done>>),
                                                     (<<"chown", backup_dir, Done>>)>>
                         /\ fs' = [made EXCEPT ![backup_dir].of = "zimbra:zimbra"]
                         /\ log' = log
                      \/ /\ visited' = visited \o <<(<<"makedirs", backup_dir, Done>>),
                                                     (<<"chown", backup_dir, Raised>>)>>
                         /\ fs' = made
                         /\ log' = Append(log, Rec("WARNING",
                                      "Could not change owner to zimbra:zimbra (proceeding anyway)",
                                      backup_dir, 0))
    /\ UNCHANGED <<prog, argv, stdin, pending, root, todo, scanvars, fs0, now, days, euid,
                   compressed_count, removed_count, faults>>

\* lines 53-57: the confirmation; the answer is lowered and not stripped
ZimbraConfirm ==
    /\ prog = "zimbra_backup" /\ pc = "confirm"
    /\ IF Closed(3) THEN ZimbraUncaught
       ELSE IF Interrupted(3) THEN ZimbraInterrupted
       ELSE LET confirm == stdin[3]
            IN  IF Lower(confirm) # "y"
                THEN /\ log' = Append(log, Rec("INFO", "Backup cancelled.", "", 0))
                     /\ pc' = "done" /\ exitcode' = 0
                ELSE /\ log' = Append(log, Rec("INFO", "Starting backup...", "", 0))
                     /\ pc' = "export" /\ exitcode' = exitcode
    /\ UNCHANGED <<prog, argv, stdin, pending, root, todo, visited, scanvars, rotvars>>

\* lines 59-68: the shell opens backup_file for the redirection, then runs the
\* command; a status other than 0 removes the file that exists (os.remove that
\* raises is not caught) and logs the failure.  The script ends with status 0
\* in both cases.
ZimbraExport ==
    /\ prog = "zimbra_backup" /\ pc = "export"
    /\ LET backup_file == BackupFileOf(BackupDirOf(stdin[2]))
           opened == [fs EXCEPT ![backup_file] = File(now, "tgz", stdin[1])]
       IN  \/ /\ visited' = Append(visited, Ran("zmmailbox", 0))
              /\ fs' = opened
              /\ log' = Append(log, Rec("INFO", "Backup completed", backup_file, 0))
              /\ pc' = "done" /\ exitcode' = 0
           \/ \E c \in ExitCodes \ {0} :
                 \/ /\ visited' = Append(visited, Ran("zmmailbox", c))
                    /\ fs' = fs
                    /\ log' = Append(log, Rec("ERROR", "Backup failed.", "", 0))
                    /\ pc' = "done" /\ exitcode' = 0
                 \/ /\ visited' = visited \o <<Ran("zmmailbox", c),
                                               (<<"remove", backup_file, Done>>)>>
                    /\ fs' = [opened EXCEPT ![backup_file] = Absent]
                    /\ log' = Append(log, Rec("ERROR", "Backup failed.", "", 0))
                    /\ pc' = "done" /\ exitcode' = 0
                 \/ /\ visited' = visited \o <<Ran("zmmailbox", c),
                                               (<<"remove", backup_file, Uncaught>>)>>
                    /\ fs' = opened
                    /\ ZimbraUncaught
    /\ UNCHANGED <<prog, argv, stdin, pending, root, todo, scanvars, fs0, now, days, euid,
                   compressed_count, removed_count, faults>>

ZimbraPaths == {"/opt/zimbra/backups", "/data/zb", "/opt/zimbra/backups/u_0.tgz",
                "/data/zb/u_0.tgz"}

ZimbraTyped ==
    {<<>>, <<"u@x.org">>, <<"u@x.org", "">>, <<Interrupt>>, <<"u@x.org", "", Interrupt>>}
    \cup {<<"u@x.org", d, a>> : d \in {"", " ", "/data/zb", " /data/zb "},
                                a \in {"y", "Y", "n", "N", "", "yes", "y "}}

InitZimbra ==
    \E d \in {Absent, Dir(StartTime - Day),
              [present |-> TRUE, mtime |-> StartTime - Day, kind |-> "dir",
               of |-> "zimbra:zimbra"]} :
       InitTyped("zimbra_backup", {<<>>}, ZimbraTyped,
                 [p \in ZimbraPaths |->
                    IF p \in {"/opt/zimbra/backups", "/data/zb"} THEN d ELSE Absent])

(***************************************************************************)
(* The scripts together.                                                   *)
(***************************************************************************)
InitTools ==
    \/ InitRotate \/ InitClean \/ InitMonitor \/ InitInspect \/ InitWrapper
    \/ InitRsync \/ InitBackup \/ InitRestore \/ InitZimbra

NextTools ==
    \/ NextRotate
    \/ CleanMain \/ CleanStart \/ CleanPackages \/ CleanWalk \/ CleanFile \/ CleanDir
    \/ CleanFinish
    \/ ProcMain \/ ProcSection \/ SysMain \/ SysSection
    \/ InspectUsage \/ InspectTail \/ InspectDefault
    \/ SearchStart \/ SearchFile \/ SearchEnd
    \/ ServiceMain \/ ServiceRun \/ UserMain \/ UserRun \/ UpdateMain \/ UpdateRun
    \/ RsyncMain \/ RsyncPrepare \/ RsyncRun
    \/ BackupMain \/ BackupPrepare \/ BackupWrite
    \/ RestoreMain \/ RestoreExtract
    \/ ZimbraPrompt \/ ZimbraConfirm \/ ZimbraExport

SpecTools == InitTools /\ [][NextTools]_vars

(***************************************************************************)
(* Runs that follow one another: backup.py run again on the same day for   *)
(* the same source and destination, and log_rotate.py run again after the  *)
(* application has written a new app.log.  The history and the log go on   *)
(* from one run to the next; a record <<"exit", script, status>> of the    *)
(* history closes a run.                                                   *)
(***************************************************************************)
\* at most MaxRuns runs follow the first one
MaxRuns == 2

\* the runs that have ended so far, as the places of their exit records
Exits == {i \in 1..Len(visited) : visited[i][1] = "exit"}

\* the process has ended and the script is started again with the same command
\* line: what is left in place is the file tree
Restart ==
    /\ pc \in {"done", "crashed"}
    /\ Cardinality(Exits) < MaxRuns
    /\ visited' = Append(visited, <<"exit", prog, exitcode>>)
    /\ pc' = "main"
    /\ exitcode' = -1
    /\ pending' = <<>> /\ root' = "" /\ todo' = <<>>
    /\ compressed_count' = 0 /\ removed_count' = 0
    /\ UNCHANGED <<prog, argv, stdin, log, scanvars, fs0, euid, faults>>

\* backup.py lines 48-51: the same day, hence the same archive path
BackupAgain ==
    /\ prog = "backup"
    /\ Restart
    /\ UNCHANGED <<fs, now, days>>

\* the application writes a new /var/log/app.log after a rotation took the old
\* one away
AppWrites ==
    /\ prog = "log_rotate" /\ pc = "done"
    /\ ~fs["/var/log/app.log"].present
    /\ fs' = [fs EXCEPT !["/var/log/app.log"] = File(now, "text", "app.log, later")]
    /\ UNCHANGED <<prog, argv, stdin, pc, pending, root, todo, log, visited, exitcode, scanvars,
                   fs0, now, days, euid, compressed_count, removed_count, faults>>

\* log_rotate.py is run again eight days later (log_rotate.py line 87: days = 7)
RotateAgain ==
    /\ prog = "log_rotate"
    /\ Restart
    /\ now' = now + 8 * Day
    /\ days' = 7
    /\ fs' = fs

InitBackupAgain ==
    InitOn("backup", {<<"/src", "/backups">>, <<"/src", "/newbackups">>},
           [p \in BackupPaths |->
              IF p \in {"/src", "/backups"} THEN Dir(StartTime - Day) ELSE Absent])

InitRotateAgain ==
    /\ InitOn("log_rotate", {<<>>, <<<<"7">>>>},
              [p \in LogPaths |->
                 CASE p = "/var/log/app.log"  -> File(StartTime - 10 * Day, "text", "app.log")
                   [] p = "/var/log/syslog.1" -> File(StartTime - 100 * Day, "text", "syslog.1")
                   [] OTHER                   -> Absent])

InitAgain == InitBackupAgain \/ InitRotateAgain

NextAgain ==
    \/ NextRotate
    \/ BackupMain \/ BackupPrepare \/ BackupWrite
    \/ BackupAgain \/ AppWrites \/ RotateAgain

SpecAgain == InitAgain /\ [][NextAgain]_vars

(***************************************************************************)
(* Properties of log_rotate.py                                             *)
(***************************************************************************)
LogFiles == {p \in LogPaths : EndsWithLog(p)}

\* the first pass stat-ed f and read an mtime below the cutoff
ScannedOld(f) ==
    \E i \in 1..Len(visited) :
        /\ visited[i][1] = "stat" /\ visited[i][2] = f
        /\ visited[i][3] >= 0 /\ visited[i][3] < cutoff

Warned(f) ==
    \E i \in 1..Len(log) : log[i].level = "WARNING" /\ log[i].path = f

\* C1: when rotate_logs has finished, for every .log file it scanned with an
\* mtime below the cutoff exactly one holds: (a) the complete <file>.gz exists
\* and the original is gone, or (b) the original is still there and a warning
\* names it.  Never are both gone, never is the original gone while <file>.gz
\* is cut short.
C1_RotationOutcome ==
    (prog = "log_rotate" /\ pc = "done" /\ exitcode = 0) =>
        \A f \in LogFiles : ScannedOld(f) =>
            LET gz == fs[GzPath(f)]
                a == /\ ~fs[f].present
                     /\ gz.present /\ gz.kind = "gz" /\ gz.of = fs0[f].of
                b == fs[f].present /\ Warned(f)
            IN  /\ a \/ b
                /\ ~(a /\ b)
                /\ ~(~fs[f].present /\ ~gz.present)
                /\ ~(~fs[f].present /\ gz.kind = "partial")

\* a finished run in which one old log was compressed and removed and the
\* compression of another failed after its archive was begun
C1_Witness ==
    /\ prog = "log_rotate" /\ pc = "done" /\ exitcode = 0
    /\ \E f, g \in LogFiles :
          /\ ScannedOld(f) /\ ~fs[f].present /\ fs[GzPath(f)].kind = "gz"
          /\ ScannedOld(g) /\ fs[g].present /\ Warned(g)
          /\ fs[GzPath(g)].kind = "partial"

\* C2: the removal of an original is attempted only right after its gzip copy
\* was written and closed without an exception, with the complete copy in
\* place; after a compression that raised, a warning names the file, no removal
\* of it follows, and the scan goes on with the next file.
C2_RemoveOnlyAfterCompress ==
    prog = "log_rotate" =>
        /\ \A i \in 1..Len(visited) : visited[i][1] = "remove" =>
              i > 1 /\ visited[i - 1] = <<"compress", visited[i][2], Done>>
        /\ pc = "remove" =>
              /\ visited[Len(visited)] = <<"compress", Head(todo), Done>>
              /\ fs[GzPath(Head(todo))].kind = "gz"
              /\ fs[GzPath(Head(todo))].of = fs[Head(todo)].of
              /\ fs[Head(todo)].present
        /\ \A i \in 1..Len(visited) :
              visited[i] = <<"compress", visited[i][2], Raised>> =>
                  /\ Warned(visited[i][2])
                  /\ fs[visited[i][2]].present
                  /\ \A j \in (i + 1)..Len(visited) : visited[j][2] # visited[i][2]
                  /\ i = Len(visited) =>
                        /\ pc \in {"pass1", "pass2", "done"}
                        /\ pc = "pass1" => visited[i][2] \notin Range(todo)

\* a compression raised, and the scan went on to compress and remove another file
C2_Witness ==
    /\ prog = "log_rotate"
    /\ \E i, j \in 1..Len(visited) :
          /\ i < j
          /\ visited[i][1] = "compress" /\ visited[i][3] = Raised
          /\ visited[j] = <<"remove", visited[j][2], Done>>

\* the files present at the start that the run should compress, resp. expire
ToCompress == {p \in LogFiles : fs0[p].kind = "text" /\ fs0[p].mtime < cutoff}
ToExpire == {p \in LogPaths : EndsWithGz(p) /\ fs0[p].kind = "gz"
                                  /\ fs0[p].mtime < cutoff90}

\* C4 as stated: a run that met no failure has compressed and removed exactly the
\* .log files older than the threshold, removed exactly the .gz files older than
\* 90 days, and left every other file as it was.
C4_Original ==
    (prog = "log_rotate" /\ pc = "done" /\ exitcode = 0 /\ faults = 0) =>
        \A p \in LogPaths :
            /\ p \in ToCompress =>
                  ~fs[p].present /\ fs[GzPath(p)] = File(now, "gz", fs0[p].of)
            /\ p \in ToExpire => ~fs[p].present
            /\ (p \notin ToCompress \cup ToExpire /\ fs0[p].present) => fs[p] = fs0[p]

\* C10 as stated, for the two passes of rotate_logs: an exception of os.stat on
\* one entry only skips the entry; it never ends the process.
C10_PerEntryErrorSkipped ==
    prog = "log_rotate" =>
        /\ pc # "crashed"
        /\ \A i \in 1..Len(visited) : visited[i][3] # Uncaught
        /\ exitcode = 1 => euid # 0

(***************************************************************************)
(* Properties of the other scripts                                         *)
(***************************************************************************)
Logged(level) == {i \in 1..Len(log) : log[i].level = level}

\* the commands that were started and returned an exit code
Returned == {i \in 1..Len(visited) : visited[i][1] = "run" /\ visited[i][3] >= 0}
Runs == {i \in 1..Len(visited) : visited[i][1] = "run"}

\* C11 as stated: in disk_cleanup --clean, a removal of an old temp file or of an
\* empty old directory that fails is followed by a warning naming the entry, the
\* scan goes on to the end, and what was removed before stays removed.
C11_Original ==
    (prog = "disk_cleanup" /\ pc \in {"temp", "done"}) =>
        /\ \A i \in 1..Len(visited) :
              (visited[i][1] \in {"remove", "rmdir"} /\ visited[i][3] = Raised) =>
                  \E j \in Logged("WARNING") : log[j].path = visited[i][2]
        /\ \A i \in 1..Len(visited) :
              (visited[i][1] \in {"remove", "rmdir"} /\ visited[i][3] = Done) =>
                  ~fs[visited[i][2]].present
        /\ pc # "crashed"

\* C12 as stated: when process_monitor.py (no argument) or sys_monitor.py has
\* ended, every section header of the script is logged and every sub-report
\* was attempted, whatever failed before it; a failed sub-report has an error
\* record and no output record.
C12_Original ==
    (prog \in {"process_monitor", "sys_monitor"} /\ argv = <<>> /\ pc = "done") =>
        LET sections == IF prog = "sys_monitor" THEN SysSections ELSE ProcSections IN
        \A k \in 1..Len(sections) :
            /\ \E j \in Logged("INFO") : log[j].text = sections[k]
            /\ \E i \in 1..Len(visited) :
                  /\ visited[i][1] = "report" /\ visited[i][2] = sections[k]
                  /\ visited[i][3] = Raised =>
                        /\ \E j \in Logged("ERROR") : log[j].path = sections[k]
                        /\ ~\E j \in Logged("INFO") :
                              log[j].text = "output" /\ log[j].path = sections[k]

\* the command lines C13 calls invalid
InvalidRotateArgs ==
    Len(argv) > 1 \/ (Len(argv) = 1 /\ (~IsInt(argv[1]) \/ IntOf(argv[1]) < 0))
InvalidInspectArgs == Len(argv) >= 1 /\ Mode \notin {"search", "tail"}

\* C13 as stated: log_rotate.py run with a days value that is no integer or is
\* negative, or with extra arguments, and log_inspect.py run with an unknown
\* mode word, read, compress and remove nothing, log a usage message and exit
\* with a non-zero code.
C13_Original ==
    ((prog = "log_rotate" /\ InvalidRotateArgs)
        \/ (prog = "log_inspect" /\ InvalidInspectArgs)) =>
        /\ visited = <<>>
        /\ fs = fs0
        /\ pc = "done" => (exitcode # 0 /\ Logged("ERROR") # {})

\* the command lines that do not match the documented usage
BadServiceArgs == Len(argv) # 2 \/ argv[1] \notin VALID_ACTIONS
BadUserArgs ==
    \/ Len(argv) < 2
    \/ argv[1] \notin USER_ACTIONS
    \/ argv[1] = "adduser" /\ Len(argv) > 3
    \/ argv[1] \in {"addtogroup", "removefromgroup"} /\ Len(argv) # 3
    \/ argv[1] \in {"deluser", "addgroup", "delgroup", "lock", "unlock"} /\ Len(argv) # 2
BadRsyncArgs ==
    ~ \/ Len(argv) = 2 /\ "--dry-run" \notin Range(argv)
      \/ Len(argv) = 3 /\ argv[1] = "--dry-run" /\ "--dry-run" \notin Range(Tail(argv))

\* no file but the log file of rsync_magic.py differs from what it was at the start
Untouched == \A p \in DOMAIN fs : p # LOG_FILE => fs[p] = fs0[p]

\* C14 as stated: service_manager.py, user_manager.py and rsync_magic.py, run
\* with a command line that does not match their usage, run no command, create
\* or modify no file, log an error and exit with a non-zero code.
C14_Original ==
    ((prog = "service_manager" /\ BadServiceArgs)
        \/ (prog = "user_manager" /\ BadUserArgs)
        \/ (prog = "rsync_magic" /\ BadRsyncArgs)) =>
        /\ Runs = {}
        /\ Untouched
        /\ pc = "done" => (exitcode # 0 /\ Logged("ERROR") # {})

Wrappers == {"service_manager", "user_manager", "update_system", "rsync_magic"}
SuccessTexts == {ServiceSuccess, UserSuccess, UpdateSuccess, RsyncSuccess}
SuccessLogged == \E j \in Logged("INFO") : log[j].text \in SuccessTexts

\* the exit code of the command run last, when it returned one
LastReturned == visited # <<>> /\ Len(visited) \in Returned
LastCode == visited[Len(visited)][3]

\* C15 as stated: when a wrapper has ended after its command returned c, it has
\* exited 0 and logged a success message if c = 0, and has logged an error and
\* exited c otherwise; a success message is never logged after a command that
\* returned non-zero.
C15_Original ==
    (prog \in Wrappers /\ pc = "done" /\ LastReturned) =>
        /\ LastCode = 0 => (exitcode = 0 /\ SuccessLogged)
        /\ LastCode # 0 => (exitcode = LastCode /\ Logged("ERROR") # {} /\ ~SuccessLogged)

\* C15, amended: as above, but `service_manager.py status` logs no success
\* message: after a status command that returned 0 it has logged the output of
\* the command, if any, and exited 0.
C15_ExitCodePropagated ==
    (prog \in Wrappers) =>
        /\ SuccessLogged => \A i \in Returned : visited[i][3] = 0
        /\ (pc = "done" /\ LastReturned) =>
              /\ LastCode = 0 =>
                    /\ exitcode = 0
                    /\ SuccessLogged <=> ~(prog = "service_manager" /\ argv[1] = "status")
              /\ LastCode # 0 =>
                    (exitcode = LastCode /\ Logged("ERROR") # {} /\ ~SuccessLogged)

\* update_system.py has ended with the exit code 3 of its second command
C15_Witness ==
    /\ prog = "update_system" /\ pc = "done"
    /\ Len(visited) = 2 /\ LastReturned /\ LastCode = 3
    /\ exitcode = 3

\* the scripts that refuse to work for a user other than root, with the command
\* lines that ask for the work
NeedsRoot ==
    \/ prog = "log_rotate"
    \/ prog = "disk_cleanup" /\ argv = <<"--clean">>

\* C16: run by a user other than root, log_rotate.py and disk_cleanup.py --clean
\* run no package-cache command and compress or remove nothing at any point of
\* the run, and they end with an error logged and the exit code 1.
C16_NonRootNoAction ==
    (NeedsRoot /\ euid # 0) =>
        /\ visited = <<>>
        /\ fs = fs0
        /\ compressed_count = 0 /\ removed_count = 0
        /\ pc \in {"main", "start", "clean", "done"}
        /\ pc = "done" =>
              /\ exitcode = 1
              /\ log # <<>> /\ log[Len(log)].level = "ERROR"

\* log_rotate.py, run by a user other than root in a tree that holds a log file,
\* has ended with the exit code 1
C16_Witness ==
    /\ prog = "log_rotate" /\ euid # 0
    /\ pc = "done" /\ exitcode = 1
    /\ \E p \in LogPaths : EndsWithLog(p) /\ fs[p].present

\* the command line of rsync_magic.py names a source and a destination
RsyncWellFormed == Len(argv) \in 1..3 /\ Len(RsyncArgs) = 2

\* the run has ended on a missing source directory or archive
SourceMissing ==
    \/ prog = "backup" /\ Len(argv) = 2
                       /\ ~(fs0[argv[1]].present /\ fs0[argv[1]].kind = "dir")
    \/ prog = "restore" /\ Len(argv) \in 1..2 /\ ~fs0[argv[1]].present
    \/ prog = "rsync_magic" /\ RsyncWellFormed
                            /\ ~(fs0[RsyncArgs[1]].present /\ fs0[RsyncArgs[1]].kind = "dir")

\* the run has ended because rsync could not be executed
RsyncNotExecuted ==
    /\ prog = "rsync_magic"
    /\ visited # <<>>
    /\ visited[Len(visited)][1] = "run" /\ visited[Len(visited)][3] = Raised

\* C17 as stated: backup.py, restore.py and rsync_magic.py, ended on a missing
\* source directory or archive or on an rsync that cannot be executed, have
\* logged an error, exit with a non-zero code and have created or written no
\* file or directory (the log file of rsync_magic.py left out of account).
C17_Original ==
    (pc = "done" /\ (SourceMissing \/ RsyncNotExecuted)) =>
        /\ exitcode > 0
        /\ Logged("ERROR") # {}
        /\ Untouched

\* the run has ended with a non-zero exit code, by sys.exit or by an exception
\* that nothing caught
EndedNonZero == pc \in {"done", "crashed"} /\ exitcode > 0

\* the log file of rsync_magic.py could not be opened when logging was set up
LogFileFailed == visited # <<>> /\ visited[1][1] = "open"

\* C18 as stated: a run of backup.py or rsync_magic.py that ends with a non-zero
\* exit code has logged an error before, and has not ended by an exception that
\* nothing caught (a run that could not set up its logging left out of account).
C18_Original ==
    (prog \in {"backup", "rsync_magic"} /\ EndedNonZero /\ ~LogFileFailed) =>
        /\ pc # "crashed"
        /\ Logged("ERROR") # {}

\* the words of the command started at step i of the history
HasDryRun(i) == \E k \in 1..Len(visited[i][2]) : visited[i][2][k] = "--dry-run"

TailLogged ==
    /\ prog = "log_inspect" /\ pc = "done"
    /\ visited # <<>>
    /\ visited[Len(visited)][1] = "read" /\ visited[Len(visited)][3] = Done
TailPath == visited[Len(visited)][2]
TailRecord == log[Len(log)]

\* the number of lines and the file the command line asks for
AskedLines == IF Mode = "tail" THEN 100 ELSE 50
AskedPath ==
    IF Mode = "tail" THEN argv[2]
    ELSE IF fs0["/var/log/syslog"].present THEN "/var/log/syslog"
    ELSE "/var/log/messages"

\* the last n lines of the file at path, all of them when it has fewer
TailOf(path, n) ==
    LET all_lines == fs0[path].of
        k == Min(n, Len(all_lines))
    IN  [i \in 1..k |-> all_lines[Len(all_lines) - k + i]]

\* s is t without the blank lines at its two ends
Trimmed(s, t) ==
    \E lo \in 1..(Len(t) + 1), hi \in 0..Len(t) :
       /\ s = SubSeq(t, lo, hi)
       /\ \A i \in 1..(lo - 1) : t[i] = 0
       /\ \A i \in (hi + 1)..Len(t) : t[i] = 0
       /\ IF lo <= hi THEN t[lo] # 0 /\ t[hi] # 0 ELSE lo = Len(t) + 1

\* C20 as stated: the record that tail_file logs holds exactly the last N lines
\* of the file, in their order, or the whole file when it has fewer, with N = 100
\* for `tail <path>` and N = 50 for the default, which reads /var/log/syslog if
\* it exists and /var/log/messages otherwise.
C20_Original ==
    TailLogged =>
        /\ TailPath = AskedPath
        /\ TailRecord.path = AskedPath
        /\ TailRecord.val.lines = AskedLines
        /\ TailRecord.val.snippet = TailOf(AskedPath, AskedLines)

\* C20, amended: the record holds the last N lines of the file, or the whole
\* file when it has fewer, in their order and without the blank lines at the
\* beginning and at the end of that stretch; N and the file are as stated, the
\* default being also what a mode word other than search and tail gives.
C20_TailStripped ==
    TailLogged =>
        /\ TailPath = AskedPath
        /\ TailRecord.level = "INFO" /\ TailRecord.path = AskedPath
        /\ TailRecord.val.lines = AskedLines
        /\ Trimmed(TailRecord.val.snippet, TailOf(AskedPath, AskedLines))
        /\ exitcode = 0

\* `tail /var/log/app.log` on a file of more than 100 lines whose last line is
\* blank: the record holds the 99 lines before it
C20_Witness ==
    /\ TailLogged /\ Mode = "tail"
    /\ Len(fs0[TailPath].of) > 100
    /\ Len(TailRecord.val.snippet) = 99
    /\ TailRecord.val.snippet[99] = fs0[TailPath].of[Len(fs0[TailPath].of) - 1]

\* sys.argv[1] of log_rotate.py is a positive integer
PositiveDays == argv # <<>> /\ IsInt(argv[1]) /\ IntOf(argv[1]) > 0

\* C21 as stated: once log_rotate.py has read its command line, the threshold is
\* the value of argv[1] when that is a positive integer, and 7 days in every
\* other case: no argument, zero, a negative number, not an integer.
C21_Original ==
    (prog = "log_rotate" /\ pc # "main") =>
        days = IF PositiveDays THEN IntOf(argv[1]) ELSE 7

\* create_backup has tried to write the archive; the result of the attempt
WriteTried ==
    /\ prog = "backup" /\ pc = "done"
    /\ \E i \in 1..Len(visited) : visited[i][1] = "write"
WriteResult == visited[CHOOSE i \in 1..Len(visited) : visited[i][1] = "write"][3]

\* C22 as stated: a run of backup.py that came to write the archive ends either
\* with the complete archive of the source at the archive path and exit code 0,
\* or, when the writing failed, with no file at the archive path and exit code 1.
C22_Original ==
    WriteTried =>
        LET archive_path == ArchivePath(argv[2]) IN
        IF WriteResult = Done
        THEN exitcode = 0 /\ fs[archive_path] = Archive("tar", argv[1])
        ELSE exitcode = 1 /\ ~fs[archive_path].present

\* the place of a package manager in the order update_system.py looks for them
Priority(pm) ==
    CASE pm = "apt-get" -> 1
      [] pm = "dnf"     -> 2
      [] pm = "yum"     -> 3
      [] pm = "zypper"  -> 4
      [] pm = "pacman"  -> 5

\* the installed manager that comes first in that order
Preferred(pm) == pm \in OnPath /\ \A o \in OnPath : Priority(pm) <= Priority(o)

\* the program of the command started at step i of the history
Program(i) == visited[i][2][1]

\* C23: update_system.py starts only commands of the one installed package
\* manager that comes first in the order apt-get, dnf, yum, zypper, pacman, none
\* of them twice and in the order update/refresh then upgrade; a command is
\* started only after the one before returned 0; and the success message is
\* logged only when every command of that manager was started and returned 0.
C23_OneManagerInOrder ==
    prog = "update_system" =>
        /\ \A i \in 1..Len(visited) :
              /\ visited[i][1] = "run"
              /\ Preferred(Program(i))
              /\ i <= Len(UpdateCommands(Program(i)))
              /\ visited[i][2] = UpdateCommands(Program(i))[i]
              /\ i > 1 => visited[i - 1][3] = 0
        /\ (\E j \in 1..Len(log) : log[j].text = UpdateSuccess) =>
              /\ visited # <<>>
              /\ Len(visited) = Len(UpdateCommands(Program(1)))
              /\ \A i \in 1..Len(visited) : visited[i][3] = 0

\* with zypper and pacman installed and neither apt-get, dnf nor yum, zypper
\* refresh and then zypper update were run, returned 0, and the success message
\* was logged
C23_Witness ==
    /\ prog = "update_system" /\ pc = "done"
    /\ OnPath = {"zypper", "pacman"}
    /\ Len(visited) = 2
    /\ visited[1] = Ran(<<"zypper", "--non-interactive", "refresh">>, 0)
    /\ visited[2] = Ran(<<"zypper", "--non-interactive", "update">>, 0)
    /\ log[Len(log)].text = UpdateSuccess

\* C24 as stated: when backup.py has ended, and an earlier run of it for the same
\* source, destination and day had succeeded, a complete archive is at the
\* archive path, whether this run succeeded or failed.
C24_Original ==
    (prog = "backup" /\ pc = "done" /\ \E i \in Exits : visited[i][3] = 0) =>
        /\ fs[ArchivePath(argv[2])].present
        /\ fs[ArchivePath(argv[2])].kind = "tar"

\* C25 as stated: no step of the compression pass of log_rotate.py overwrites or
\* truncates a complete .gz archive that is already there: after the step the
\* archive is complete and holds the content it held before.
C25_Original ==
    [][(prog = "log_rotate" /\ pc \in {"pass1", "remove"}) =>
          \A p \in LogPaths :
             (EndsWithGz(p) /\ fs[p].present /\ fs[p].kind = "gz") =>
                 /\ fs'[p].present /\ fs'[p].kind = "gz"
                 /\ fs'[p].of = fs[p].of]_vars

\* the entries below /tmp and /var/tmp, and those of them in directory d
BelowTmp == TmpPaths \ {"/tmp", "/var/tmp"}
EntriesOf(d) == {c \in BelowTmp : Parent(c) = d /\ fs[c].present}

\* C26 as stated: every entry that a step of disk_cleanup.py --clean removes is
\* below /tmp or /var/tmp, has an mtime before now - 7 days and, when it is a
\* directory, is empty at that moment; nothing else is removed.
C26_Original ==
    [][(prog = "disk_cleanup") =>
          \A p \in DOMAIN fs :
             (fs[p].present /\ ~fs'[p].present) =>
                 /\ p \in BelowTmp
                 /\ fs[p].mtime < now - 7 * Day
                 /\ fs[p].kind = "dir" => EntriesOf(p) = {}]_vars

\* C26, amended: every entry that the walk of /tmp and /var/tmp removes is below
\* one of the two, is not /tmp or /var/tmp itself, has at that moment an mtime,
\* read through a symbolic link, before now - 7 days and, when it is a
\* directory, is empty at that moment; outside the two trees only the cache of
\* the package manager goes, by the clean command of the package manager.
C26_CleanOnlyOldTemp ==
    [][(prog = "disk_cleanup") =>
          \A p \in DOMAIN fs :
             (fs[p].present /\ ~fs'[p].present) =>
                 \/ p = PkgCache /\ pc = "packages"
                 \/ /\ pc = "temp"
                    /\ p \in BelowTmp
                    /\ (IF fs[p].kind = "link" THEN fs[fs[p].of].mtime ELSE fs[p].mtime)
                           < now - 7 * Day
                    /\ fs[p].kind = "dir" => EntriesOf(p) = {}]_vars

\* a run of disk_cleanup.py --clean has ended after it removed the old file
\* /tmp/b and the old empty directory /tmp/e, and kept /tmp/d, which was old but
\* held a file
C26_Witness ==
    /\ prog = "disk_cleanup" /\ pc = "done" /\ exitcode = 0
    /\ fs0["/tmp/b"].present /\ ~fs["/tmp/b"].present
    /\ fs0["/tmp/e"].present /\ ~fs["/tmp/e"].present
    /\ fs0["/tmp/d"].mtime < now - 7 * Day /\ fs["/tmp/d"].present
    /\ fs["/tmp"].present /\ fs["/var/tmp"].present

\* the confirmation of zimbra_backup.py has been asked and answered with a line
Answered ==
    /\ prog = "zimbra_backup"
    /\ Len(stdin) >= 3 /\ stdin[3] # Interrupt
    /\ pc \in {"export", "done", "crashed"}
    /\ \E i \in 1..Len(visited) : visited[i][1] = "chown"

\* C27: when the answer to "Proceed? (y/n)" of zimbra_backup.py is anything other
\* than y, the run has had no side effect: the files are as they were before
\* the run (no backup directory created, no owner changed, no backup file), no
\* command was run, and the process exits 0 after logging "Backup cancelled."
C27_Original ==
    (Answered /\ stdin[3] # "y") =>
        /\ fs = fs0
        /\ \A i \in 1..Len(visited) : visited[i][1] # "run"
        /\ pc = "done" /\ exitcode = 0
        /\ log # <<>> /\ log[Len(log)].text = "Backup cancelled."

====
